---------------------------- MODULE Spec2Model ----------------------------
(***************************************************************************)
(* Model of the evaluation subsystem of PraisonAI Bench (TypeScript).      *)
(*                                                                         *)
(* Spec is one call of evaluate, on either evaluator:                      *)
(*                                                                         *)
(*   TypeScriptEvaluator.evaluate with executeCode: the scoring pipeline,  *)
(*   the temp file, the child process, the two timeout timers and the      *)
(*   child's events (src/src/evaluator.ts);                                *)
(*   HTMLEvaluator.evaluate with validateStructure and evaluateInBrowser   *)
(*   (src/src/evaluators/html-evaluator.ts).                               *)
(*                                                                         *)
(* The extracted code and the HTML text are inputs of the call and are not *)
(* kept in the state: the compiler's verdict and the structure result are. *)
(*                                                                         *)
(* The other specifications each take one part of the program on its own:  *)
(* SpecCompare (compareOutput), SpecExtract (extractCode), SpecConcurrent  *)
(* (evaluate calls in flight on one evaluator), SpecPlugins and SpecLoad   *)
(* (PluginManager, src/src/plugin-manager.ts), SpecDiscovery               *)
(* (discoverPlugins, src/src/plugin-discovery.ts), SpecDetect              *)
(* (Bench.detectLanguage), SpecRun (Bench.runSingleTest), SpecAgent        *)
(* (BenchAgent.runTest, src/src/agent.ts) and SpecLive (the TypeScript     *)
(* evaluator under the event loop's scheduling).                           *)
(*                                                                         *)
(* Strings are sequences of one-character strings.  Messages are sequences *)
(* of tokens: the literal parts of a template string are one token each,   *)
(* an interpolated string contributes its characters.  A number n/d that   *)
(* the code holds as a double is the record [num |-> n, den |-> d].        *)
(***************************************************************************)
EXTENDS Integers, Sequences, FiniteSets, TLC

(***************************************************************************)
(* Bounds of the model.                                                    *)
(***************************************************************************)
\* longest stdout text the child writes, and longest expected text
MaxLen == 1
\* longest stderr text the child writes
MaxErrLen == 1
\* longest HTML text, in tokens
MaxHtmlLen == 2
\* most console errors and page errors a page raises
MaxErrors == 3
\* most console warnings a page raises
MaxWarnings == 1
\* longest argument of a direct call of compareOutput
MaxCmpLen == 3
\* most lines of a response given to extractCode
MaxLines == 5
\* most evaluate calls in flight on one evaluator
MaxCalls == 2
\* most plugins one discovery pass reports
MaxDiscovered == 1
\* most plugins one discovery pass reports, where loading them fails in every way
MaxFound == 2
\* most entries of a node_modules directory
MaxEntries == 2
\* most tokens of a response whose language is detected
MaxTokens == 4
\* most plugin evaluators instantiated over the life of a PluginManager
MaxInstances == 2

(***************************************************************************)
(* Constants of the program.                                               *)
(***************************************************************************)
SyntaxWeight == 30
ExecutionWeight == 40
MatchWeight == 30
PassThreshold == 70
MaxScore == 100
DefaultTimeout == 5
OutputPreviewLen == 100
ExpectedPreviewLen == 50
DoctypeWeight == 25
RequiredTagsWeight == 25
OpenTagsWeight == 50
RendersWeight == 50
NoErrorsWeight == 30
FewErrorsWeight == 15
FastRenderWeight == 20
RenderWeight == 10
FastRenderMs == 1000
RenderMs == 3000

(***************************************************************************)
(* Strings.                                                                *)
(***************************************************************************)
Letters == {"a", "A", "b"}
Whitespace == {" "}
Chars == Letters \cup Whitespace

RECURSIVE StringsUpTo(_)
StringsUpTo(n) ==
    IF n = 0 THEN {<<>>}
    ELSE LET shorter == StringsUpTo(n - 1)
         IN  shorter \cup {Append(s, c) : s \in {t \in shorter : Len(t) = n - 1}, c \in Chars}

\* String.prototype.trim
RECURSIVE TrimStart(_)
TrimStart(s) ==
    IF s # <<>> /\ Head(s) \in Whitespace THEN TrimStart(Tail(s)) ELSE s

RECURSIVE TrimEnd(_)
TrimEnd(s) ==
    IF s # <<>> /\ s[Len(s)] \in Whitespace
    THEN TrimEnd(SubSeq(s, 1, Len(s) - 1))
    ELSE s

Trim(s) == TrimEnd(TrimStart(s))

\* String.prototype.toLowerCase
LowerChar(c) == IF c = "A" THEN "a" ELSE c
ToLowerCase(s) == [i \in 1..Len(s) |-> LowerChar(s[i])]

\* String.prototype.includes
Includes(s, sub) ==
    \E i \in 0..(Len(s) - Len(sub)) : SubSeq(s, i + 1, i + Len(sub)) = sub

\* String.prototype.substring(0, n)
Substring0(s, n) == SubSeq(s, 1, IF Len(s) < n THEN Len(s) ELSE n)

\* n/d >= p/q, for positive d and q
RatGeq(x, p, q) == x.num * q >= p * x.den
Rat(n, d) == [num |-> n, den |-> d]
\* Math.floor(x * k) for a non-negative ratio x
FloorTimes(x, k) == (x.num * k) \div x.den
\* Math.round(x * k) for a non-negative ratio x (round half up)
RoundTimes(x, k) == (2 * x.num * k + x.den) \div (2 * x.den)

Max(a, b) == IF a >= b THEN a ELSE b
Min(a, b) == IF a <= b THEN a ELSE b

(***************************************************************************)
(* TypeScriptEvaluator.compareOutput and its helpers.                      *)
(***************************************************************************)
RECURSIVE longestCommonSubsequence(_, _)
longestCommonSubsequence(a, b) ==
    IF a = <<>> \/ b = <<>> THEN 0
    ELSE IF a[Len(a)] = b[Len(b)]
         THEN longestCommonSubsequence(SubSeq(a, 1, Len(a) - 1), SubSeq(b, 1, Len(b) - 1)) + 1
         ELSE Max(longestCommonSubsequence(SubSeq(a, 1, Len(a) - 1), b),
                  longestCommonSubsequence(a, SubSeq(b, 1, Len(b) - 1)))

calculateSimilarity(a, b) ==
    IF a = b THEN Rat(1, 1)
    ELSE IF Len(a) = 0 \/ Len(b) = 0 THEN Rat(0, 1)
    ELSE Rat(2 * longestCommonSubsequence(a, b), Len(a) + Len(b))

\* a mutant of AdjustSimilarity: no floor
AdjustSimilarityNever(similarity, actualNormalized, expectedNormalized) == similarity

\* the substring floor: Math.max(similarity, 0.85) when expected is inside actual
AdjustSimilarity(similarity, actualNormalized, expectedNormalized) ==
    IF Includes(actualNormalized, expectedNormalized)
    THEN IF RatGeq(similarity, 85, 100) THEN similarity ELSE Rat(85, 100)
    ELSE similarity

\* a mutant of SimilarityToScore: one linear band
SimilarityToScoreLinear(s) == FloorTimes(s, 30)

\* the three bands that convert a similarity to 0..30 points
\*   floor(25 + (s - 0.8) * 25), floor(15 + (s - 0.5) * 33.33), floor(s * 30)
SimilarityToScore(s) ==
    IF RatGeq(s, 8, 10)
    THEN 25 + ((10 * s.num - 8 * s.den) * 25) \div (10 * s.den)
    ELSE IF RatGeq(s, 5, 10)
         THEN 15 + ((2 * s.num - s.den) * 3333) \div (200 * s.den)
         ELSE FloorTimes(s, 30)

\* a mutant of compareOutput: the comparison is case sensitive
compareOutputCaseSensitive(actual, expected) ==
    LET similarity == calculateSimilarity(Trim(actual), Trim(expected))
        adjustedSimilarity == AdjustSimilarity(similarity, Trim(actual), Trim(expected))
    IN  IF Trim(actual) = Trim(expected) THEN <<MatchWeight, Rat(1, 1)>>
        ELSE <<Min(SimilarityToScore(adjustedSimilarity), MatchWeight), adjustedSimilarity>>

\* returns <<score, similarity>>
compareOutput(actual, expected) ==
    LET actualTrimmed == Trim(actual)
        expectedTrimmed == Trim(expected)
        actualNormalized == ToLowerCase(actualTrimmed)
        expectedNormalized == ToLowerCase(expectedTrimmed)
        similarity == calculateSimilarity(actualNormalized, expectedNormalized)
        adjustedSimilarity ==
            AdjustSimilarity(similarity, actualNormalized, expectedNormalized)
    IN  IF actualTrimmed = expectedTrimmed THEN <<MatchWeight, Rat(1, 1)>>
        ELSE IF actualNormalized = expectedNormalized THEN <<MatchWeight, Rat(1, 1)>>
        ELSE <<Min(SimilarityToScore(adjustedSimilarity), MatchWeight), adjustedSimilarity>>


(***************************************************************************)
(* State of one TypeScriptEvaluator.evaluate call.                         *)
(***************************************************************************)
VARIABLES
    pc,           \* "idle", "awaiting" (suspended at await executeCode), "returned"
    expected,     \* the optional argument: [supplied, text]
    syntaxResult, \* what validateSyntax returned
    score,        \* evaluate's local
    feedback,     \* evaluate's local
    result,       \* the EvaluationResult, once pc = "returned"
    tempFile,     \* the temp file on disk: "none", "exists", "deleted"
    child,        \* the child process: "none", "failed" (spawn error), "running", "exited"
    exitCode,     \* "none", "0", "1", "null" (killed by a signal), "-2" (spawn error)
    sigterm,      \* SIGTERM was sent to the running child
    spawnTimer,   \* the timer of spawn's timeout option: "unset", "armed", "fired", "cleared"
    evalTimer,    \* timeoutId: "unset", "armed", "fired", "cleared"
    emitted,      \* the child's events emitted so far, a subset of {"error", "exit", "close"}
    stdout,       \* executeCode's local
    stderr,       \* executeCode's local
    promise,      \* the promise executeCode returned: [settled, value]
    firstEvent,   \* history: what called resolve first
    ranPastTimeout \* history: a timeout timer fired while the child was still running

tsVars == <<pc, expected, syntaxResult, score, feedback, result, tempFile, child,
            exitCode, sigterm, spawnTimer, evalTimer, emitted, stdout, stderr, promise,
            firstEvent, ranPastTimeout>>

(***************************************************************************)
(* State of one HTMLEvaluator.evaluate call.                               *)
(***************************************************************************)
VARIABLES
    evaluator,           \* the evaluator the call is made on: "typescript" or "html"
    playwrightAvailable, \* set by the constructor's checkPlaywright
    hpc,                 \* "idle", "launching", "loading", "shooting", "closing", "returned"
    structureResult,     \* what validateStructure returned
    errors,              \* evaluateInBrowser's local
    warnings,            \* evaluateInBrowser's local
    renders,             \* evaluateInBrowser's local
    renderTime,          \* evaluateInBrowser's local
    screenshotPath,      \* evaluateInBrowser's local: TRUE once the path is assigned
    hresult              \* the HTMLEvaluationResult, once hpc = "returned"

htmlVars == <<playwrightAvailable, hpc, structureResult, errors, warnings, renders,
              renderTime, screenshotPath, hresult>>

evalVars == <<evaluator, tsVars, htmlVars>>

(***************************************************************************)
(* State of one call of a pure method of TypeScriptEvaluator.              *)
(***************************************************************************)
VARIABLES
    cmpActual,    \* compareOutput's argument actual
    cmpExpected,  \* compareOutput's argument expected
    cmpResult,    \* what compareOutput returned: <<score, similarity>>, once called
    response,     \* extractCode's argument, as a sequence of lines
    extracted     \* what extractCode returned, as a sequence of lines, once called

compareVars == <<cmpActual, cmpExpected, cmpResult>>
extractVars == <<response, extracted>>

(***************************************************************************)
(* State of several evaluate calls made on one TypeScriptEvaluator before  *)
(* any of them has returned.                                               *)
(***************************************************************************)
VARIABLES
    files,       \* the temp directory: for each file name, the call whose code it holds, or 0
    callPc,      \* per call: "idle", "awaiting" (at await executeCode), "returned"
    callFile,    \* per call: executeCode's local tempFile, once assigned
    childRead,   \* per call: the call whose code its child loaded; 0 not yet, -1 no file
    closed,      \* per call: the 'close' handler has run
    callResult   \* per call: the call whose output it reports; -1 an error, -2 a timeout

concurrentVars == <<files, callPc, callFile, childRead, closed, callResult>>

(***************************************************************************)
(* State of a PluginManager.                                               *)
(***************************************************************************)
VARIABLES
    constructed,   \* the constructor has run
    evaluators,    \* the registry: for each key the evaluator instance, or NoEvaluator
    keyOrder,      \* the keys of the registry, in the order the Map iterates them
    loadedPlugins, \* the ledger of loaded plugins
    instances,     \* the number of plugin evaluators instantiated so far
    lastOp,        \* history: the method called last
    arguments,     \* history: the language and evaluator arguments of that call
    returned,      \* history: what that call returned
    tried,         \* history: the plugins that call tried to load
    before         \* history: the registry before that call

pluginVars ==
    <<constructed, evaluators, keyOrder, loadedPlugins, instances, lastOp, arguments, returned,
      tried, before>>

(***************************************************************************)
(* One call of discoverPlugins of plugin-discovery: the file system it     *)
(* reads, its argument and its result.                                     *)
(***************************************************************************)
VARIABLES
    cwdState,      \* whether <cwd>/node_modules is missing, unreadable or readable
    nodeModules,   \* the entries of <cwd>/node_modules, in the order readdirSync lists them
    searchPaths,   \* the argument of discoverPlugins
    discovered     \* the plugins returned, or NotCalled

discoveryVars == <<cwdState, nodeModules, searchPaths, discovered>>

(***************************************************************************)
(* One call of Bench.detectLanguage: its arguments and its result.         *)
(***************************************************************************)
VARIABLES
    detectResponse, \* the response
    languageHint,   \* testConfig?.language
    detected        \* the language returned, or NotCalled

detectVars == <<detectResponse, languageHint, detected>>

VARIABLES
    maxRetries,    \* BenchAgent's field, set by the constructor
    agentPc,       \* runTest: "idle", "sleeping", "calling", "returned"
    attempt,       \* the loop variable of runTest
    outcomes,      \* what each attempt made so far produced, in order
    waits,         \* the arguments of the calls of sleep made so far, in ms
    testResult     \* what runTest returned, or NotCalled

agentVars == <<maxRetries, agentPc, attempt, outcomes, waits, testResult>>

VARIABLES
    runPc,         \* runSingleTest: "idle", "evaluating" (at await evaluate), "returned", "threw"
    runArgs,       \* the prompt and language arguments, and what agent.runTest returned
    runLanguage,   \* detectedLanguage, once computed
    evalOutcome,   \* how the call of evaluator.evaluate ended, or "none"
    runLog,        \* what was written to the console after agent.runTest returned
    benchResult,   \* the local benchResult
    results        \* this.results

runVars == <<runPc, runArgs, runLanguage, evalOutcome, runLog, benchResult, results>>

benchVars == <<discoveryVars, detectVars, agentVars, runVars>>

otherVars == <<compareVars, extractVars, concurrentVars, pluginVars, benchVars>>

vars == <<evalVars, otherVars>>

\* string | null
Null == [isNull |-> TRUE, text |-> <<>>]
Str(s) == [isNull |-> FALSE, text |-> s]
\* x || y for a string | null x
OrElse(x, y) == IF x.isNull \/ x.text = <<>> THEN y ELSE x
Truthy(x) == ~x.isNull /\ x.text # <<>>

\* expected?: string
NotSupplied == [supplied |-> FALSE, text |-> <<>>]
Supplied(s) == [supplied |-> TRUE, text |-> s]
ExpectedValues == {NotSupplied} \cup {Supplied(s) : s \in StringsUpTo(MaxLen)}
\* the truthiness test `expected && ...`
ExpectedGiven(e) == e.supplied /\ e.text # <<>>

\* EvaluationDetails: `has` lists the optional keys that are set
NoDetails ==
    [has |-> {}, executed |-> FALSE, output |-> <<>>, error |-> Null, syntax_error |-> <<>>,
     similarity |-> Rat(0, 1), expected |-> <<>>,
     score_breakdown |-> [syntax |-> 0, execution |-> 0, output_match |-> 0]]

Item(level, message) == [level |-> level, message |-> message]

\* the configured timeout, in seconds
timeout == DefaultTimeout

(***************************************************************************)
(* validateSyntax: the compiler's verdict on the extracted code is an      *)
(* input.  Either no diagnostics (with the import specifiers found), or a  *)
(* first diagnostic "<message> (line <n>)", or an exception whose message  *)
(* (possibly empty) becomes the error.                                     *)
(***************************************************************************)
ImportLists == {<<>>, <<"fs">>}

validateSyntax ==
    {[isValid |-> TRUE, error |-> Null, imports |-> im] : im \in ImportLists}
    \cup {[isValid |-> FALSE, error |-> Str(<<"';' expected.", " (line ", "1", ")">>), imports |-> <<>>],
          [isValid |-> FALSE, error |-> Str(<<"compiler host failure">>), imports |-> <<>>],
          [isValid |-> FALSE, error |-> Str(<<>>), imports |-> <<>>]}

\* a mutant of SyntaxPoints: the points are awarded whatever the verdict
SyntaxPointsAlways(sr) == SyntaxWeight

\* Stage 1 of evaluate: the points and the feedback of syntax validation
SyntaxPoints(sr) == IF sr.isValid THEN SyntaxWeight ELSE 0

SyntaxFeedback(sr) ==
    IF sr.isValid
    THEN <<Item("success", <<"Valid TypeScript syntax">>)>>
         \o (IF Len(sr.imports) > 0
             THEN <<Item("info", <<"Imports: ">> \o sr.imports)>>
             ELSE <<>>)
    ELSE <<Item("error", <<"Syntax error: ">> \o (IF sr.error.isNull THEN <<"null">> ELSE sr.error.text))>>

\* the early return of evaluate after a syntax error
SyntaxErrorResult(sr) ==
    [score |-> SyntaxPoints(sr),
     passed |-> FALSE,
     feedback |-> SyntaxFeedback(sr),
     details |-> [NoDetails EXCEPT !.has = IF Truthy(sr.error) THEN {"syntax_error"} ELSE {},
                                   !.syntax_error = sr.error.text]]

(***************************************************************************)
(* executeCode: the results it resolves with.                              *)
(***************************************************************************)
ExecutionResult(success, output, error) ==
    [success |-> success, output |-> output, error |-> error]

\* the timer callback's result
TimeoutResult ==
    ExecutionResult(FALSE, Null, Str(<<"Timeout", ": execution exceeded ", ToString(timeout), "s">>))

\* a mutant of CloseResult: no fallback message when stderr is empty
CloseResultNoFallback(code, out, err) ==
    IF code = "0"
    THEN ExecutionResult(TRUE, Str(Trim(out)), Null)
    ELSE ExecutionResult(FALSE, IF Trim(out) = <<>> THEN Null ELSE Str(Trim(out)), Str(Trim(err)))

\* the 'close' handler's result
CloseResult(code, out, err) ==
    IF code = "0"
    THEN ExecutionResult(TRUE, Str(Trim(out)), Null)
    ELSE ExecutionResult(FALSE,
                         IF Trim(out) = <<>> THEN Null ELSE Str(Trim(out)),
                         IF Trim(err) = <<>>
                         THEN Str(<<"Process exited with code ", code>>)
                         ELSE Str(Trim(err)))

\* the 'error' handler's and the catch block's result
ErrorResult(message) ==
    ExecutionResult(FALSE, Null, Str(<<"Execution error: ">> \o message))

\* a mutant of Resolve: a later call replaces the value
ResolveOverwrites(p, value) == [settled |-> TRUE, value |-> value]
\* a mutant of Resolve: the call is lost and the promise stays pending
ResolveNever(p, value) == p

\* resolve(value): a promise settles once, later calls change nothing
Resolve(p, value) ==
    IF p.settled THEN p ELSE [settled |-> TRUE, value |-> value]

First(ev) == IF firstEvent = "none" THEN ev ELSE firstEvent

\* if (tempFile && fs.existsSync(tempFile)) fs.unlinkSync(tempFile)
CleanUp(file) == IF file = "exists" THEN "deleted" ELSE file

\* child.kill('SIGTERM'): the signal reaches a child that is still running
Kill(c) == sigterm \/ c = "running"

\* global.clearTimeout(timeoutId)
ClearTimeout(t) == IF t = "armed" THEN "cleared" ELSE t

\* setTimeout / spawn's timeout option arm a timer when the delay is positive;
\* setTimeout arms one for any delay
SpawnTimerAfterSpawn == IF timeout * 1000 > 0 THEN "armed" ELSE "unset"

(***************************************************************************)
(* evaluate after the await: stages 2 and 3 and the final assessment.      *)
(***************************************************************************)
\* mutants of ExecutionPoints: the wrong weight, and points for a failed run
ExecutionPointsAsSyntax(er) == IF er.success THEN SyntaxWeight ELSE 0
ExecutionPointsAlways(er) == ExecutionWeight

ExecutionPoints(er) == IF er.success THEN ExecutionWeight ELSE 0

Preview(s, n) == IF Len(s) > n THEN Substring0(s, n) \o <<"...">> ELSE s

\* a mutant of ExecutionFeedback: the success of the run is reported as information
ExecutionFeedbackAsInfo(er) ==
    IF er.success
    THEN <<Item("info", <<"Code executed successfully">>)>>
    ELSE <<Item("error", <<"Runtime error: ">>
                         \o (IF er.error.isNull THEN <<"null">> ELSE er.error.text))>>

ExecutionFeedback(er) ==
    IF er.success
    THEN <<Item("success", <<"Code executed successfully">>)>>
         \o (IF Truthy(er.output)
             THEN <<Item("info", <<"Output: ">> \o Preview(er.output.text, OutputPreviewLen))>>
             ELSE <<>>)
    ELSE <<Item("error", <<"Runtime error: ">>
                         \o (IF er.error.isNull THEN <<"null">> ELSE er.error.text))>>

\* whether stage 3 compares: `expected && executionResult.success`
Compares(e, er) == ExpectedGiven(e) /\ er.success

Comparison(e, er) == compareOutput(OrElse(er.output, Str(<<>>)).text, e.text)

\* a mutant of MatchPoints: full points when there is nothing to compare with
MatchPointsDefault(e, er) ==
    IF Compares(e, er) THEN Comparison(e, er)[1]
    ELSE IF ~ExpectedGiven(e) THEN MatchWeight ELSE 0

\* matchScore
MatchPoints(e, er) == IF Compares(e, er) THEN Comparison(e, er)[1] ELSE 0

Percent(similarity) == ToString(RoundTimes(similarity, 100))

\* a mutant of MatchFeedback: nothing is said when the run failed
MatchFeedbackNoSkip(e, er) ==
    IF Compares(e, er)
    THEN <<Item("success", <<"Output matches expected">>)>>
    ELSE <<>>

MatchFeedback(e, er) ==
    IF Compares(e, er)
    THEN LET matchScore == Comparison(e, er)[1]
             pct == <<" (", Percent(Comparison(e, er)[2]), "% similarity)">>
         IN  IF matchScore >= 25
             THEN <<Item("success", <<"Output matches expected">> \o pct)>>
             ELSE IF matchScore >= 15
                  THEN <<Item("warning", <<"Output partially matches expected">> \o pct)>>
                  ELSE <<Item("warning", <<"Output differs from expected">> \o pct),
                         Item("info", <<"Expected: ">> \o Preview(e.text, ExpectedPreviewLen))>>
    ELSE IF ExpectedGiven(e) /\ ~er.success
         THEN <<Item("error", <<"Cannot compare output - code did not execute">>)>>
         ELSE <<>>

\* a mutant of Passed: the threshold itself does not pass
PassedAbove(s) == s > PassThreshold

\* a mutant of Passed: only the full score passes
PassedOnlyPerfect(s) == s >= MaxScore

Passed(s) == s >= PassThreshold

\* a mutant of ScoreBreakdown: the comparison is reported with its full weight
ScoreBreakdownFullMatch(sr, e, er) ==
    [syntax |-> IF sr.isValid THEN SyntaxWeight ELSE 0,
     execution |-> IF er.success THEN ExecutionWeight ELSE 0,
     output_match |-> IF ExpectedGiven(e) /\ er.success THEN MatchWeight ELSE 0]

ScoreBreakdown(sr, e, er) ==
    [syntax |-> IF sr.isValid THEN SyntaxWeight ELSE 0,
     execution |-> IF er.success THEN ExecutionWeight ELSE 0,
     output_match |-> IF ExpectedGiven(e) /\ er.success THEN MatchPoints(e, er) ELSE 0]

FinalDetails(sr, e, er) ==
    [NoDetails EXCEPT
        !.has = {"executed", "output", "error", "score_breakdown"}
                \cup (IF Compares(e, er) THEN {"similarity", "expected"} ELSE {}),
        !.executed = er.success,
        !.output = OrElse(er.output, Str(<<>>)).text,
        !.error = er.error,
        !.similarity = IF Compares(e, er) THEN Comparison(e, er)[2] ELSE Rat(0, 1),
        !.expected = IF Compares(e, er) THEN e.text ELSE <<>>,
        !.score_breakdown = ScoreBreakdown(sr, e, er)]

\* a mutant of FinalResult: the comparison feedback is put before the execution feedback
FinalResultMatchFirst(s, fb, sr, e, er) ==
    [score |-> Min(s + ExecutionPoints(er) + MatchPoints(e, er), MaxScore),
     passed |-> Passed(s + ExecutionPoints(er) + MatchPoints(e, er)),
     feedback |-> fb \o MatchFeedback(e, er) \o ExecutionFeedback(er),
     details |-> FinalDetails(sr, e, er)]

\* the result evaluate returns once executeCode has resolved with er
FinalResult(s, fb, sr, e, er) ==
    LET total == s + ExecutionPoints(er) + MatchPoints(e, er)
    IN  [score |-> Min(total, MaxScore),
         passed |-> Passed(total),
         feedback |-> fb \o ExecutionFeedback(er) \o MatchFeedback(e, er),
         details |-> FinalDetails(sr, e, er)]

(***************************************************************************)
(* Scheduling.  The continuation of `await executeCode(...)` is a          *)
(* microtask and the 'error' event of a failed spawn is emitted from       *)
(* process.nextTick: both run before any timer or I/O callback.  The       *)
(* operating system runs the child at its own pace.  Node.js promises no   *)
(* order between two timers, so the two timeout timers fire in any order   *)
(* and other callbacks may run between them.                               *)
(***************************************************************************)
MicrotaskPending == pc = "awaiting" /\ promise.settled
NextTickPending == child = "failed" /\ "error" \notin emitted
LoopTurn == ~MicrotaskPending /\ ~NextTickPending

NoResult == [score |-> 0, passed |-> FALSE, feedback |-> <<>>, details |-> NoDetails]
Pending == [settled |-> FALSE, value |-> ExecutionResult(FALSE, Null, Null)]

WriteOutcomes == {"written", "fails", "fails_partial"}
SpawnOutcomes == {"spawned", "error", "throws"}
ExitCodes == {"0", "1"}

TsInit ==
    /\ pc = "idle"
    /\ expected = NotSupplied
    /\ syntaxResult = [isValid |-> FALSE, error |-> Null, imports |-> <<>>]
    /\ score = 0
    /\ feedback = <<>>
    /\ result = NoResult
    /\ tempFile = "none"
    /\ child = "none"
    /\ exitCode = "none"
    /\ sigterm = FALSE
    /\ spawnTimer = "unset"
    /\ evalTimer = "unset"
    /\ emitted = {}
    /\ stdout = <<>>
    /\ stderr = <<>>
    /\ promise = Pending
    /\ firstEvent = "none"
    /\ ranPastTimeout = FALSE

\* the synchronous part of executeCode: the promise executor
executeCode(write, spawn) ==
    IF write # "written" \/ spawn = "throws"
    THEN \* the catch block
         /\ tempFile' = CleanUp(IF write = "fails" THEN "none" ELSE "exists")
         /\ promise' = Resolve(promise, ErrorResult(IF write # "written"
                                                    THEN <<"ENOSPC: no space left on device, write">>
                                                    ELSE <<"spawn EINVAL">>))
         /\ firstEvent' = First("catch")
         /\ UNCHANGED <<child, exitCode, spawnTimer, evalTimer>>
    ELSE /\ tempFile' = "exists"
         /\ child' = IF spawn = "spawned" THEN "running" ELSE "failed"
         /\ exitCode' = IF spawn = "spawned" THEN exitCode ELSE "-2"
         /\ spawnTimer' = SpawnTimerAfterSpawn
         /\ evalTimer' = "armed"
         /\ UNCHANGED <<promise, firstEvent>>

\* evaluate, up to its return after a syntax error or to the await
evaluate(e, sr, write, spawn) ==
    /\ expected' = e
    /\ syntaxResult' = sr
    /\ score' = SyntaxPoints(sr)
    /\ feedback' = SyntaxFeedback(sr)
    /\ IF sr.isValid
       THEN /\ executeCode(write, spawn)
            /\ pc' = "awaiting"
            /\ UNCHANGED result
       ELSE /\ result' = SyntaxErrorResult(sr)
            /\ pc' = "returned"
            /\ UNCHANGED <<tempFile, child, exitCode, spawnTimer, evalTimer, promise, firstEvent>>
    /\ UNCHANGED <<evaluator, htmlVars, otherVars, sigterm, emitted, stdout, stderr, ranPastTimeout>>

\* a call of evaluate: its arguments, and what the compiler, the file system and
\* spawn answer
Evaluate ==
    /\ evaluator = "typescript"
    /\ pc = "idle"
    /\ \E e \in ExpectedValues, sr \in validateSyntax, w \in WriteOutcomes, sp \in SpawnOutcomes :
          evaluate(e, sr, w, sp)

\* evaluate, from the await to its return
Resume ==
    /\ MicrotaskPending
    /\ result' = FinalResult(score, feedback, syntaxResult, expected, promise.value)
    /\ score' = score + ExecutionPoints(promise.value) + MatchPoints(expected, promise.value)
    /\ feedback' = result'.feedback
    /\ pc' = "returned"
    /\ UNCHANGED <<evaluator, htmlVars, otherVars, expected, syntaxResult, tempFile, child, exitCode, sigterm, spawnTimer,
                   evalTimer, emitted, stdout, stderr, promise, firstEvent, ranPastTimeout>>

\* child.stdout.on('data')
OnStdoutData(c) ==
    /\ LoopTurn
    /\ child \in {"running", "exited"}
    /\ "close" \notin emitted
    /\ Len(stdout) < MaxLen
    /\ stdout' = stdout \o <<c>>
    /\ UNCHANGED <<evaluator, htmlVars, otherVars, pc, expected, syntaxResult, score, feedback, result, tempFile, child,
                   exitCode, sigterm, spawnTimer, evalTimer, emitted, stderr, promise,
                   firstEvent, ranPastTimeout>>

\* child.stderr.on('data')
OnStderrData(c) ==
    /\ LoopTurn
    /\ child \in {"running", "exited"}
    /\ "close" \notin emitted
    /\ Len(stderr) < MaxErrLen
    /\ stderr' = stderr \o <<c>>
    /\ UNCHANGED <<evaluator, htmlVars, otherVars, pc, expected, syntaxResult, score, feedback, result, tempFile, child,
                   exitCode, sigterm, spawnTimer, evalTimer, emitted, stdout, promise,
                   firstEvent, ranPastTimeout>>

\* the child process ends by itself
ChildExits(code) ==
    /\ child = "running"
    /\ child' = "exited"
    /\ exitCode' = code
    /\ UNCHANGED <<evaluator, htmlVars, otherVars, pc, expected, syntaxResult, score, feedback, result, tempFile, sigterm,
                   spawnTimer, evalTimer, emitted, stdout, stderr, promise, firstEvent,
                   ranPastTimeout>>

\* the child process is ended by the SIGTERM it was sent
ChildDies ==
    /\ child = "running"
    /\ sigterm
    /\ child' = "exited"
    /\ exitCode' = "null"
    /\ UNCHANGED <<evaluator, htmlVars, otherVars, pc, expected, syntaxResult, score, feedback, result, tempFile, sigterm,
                   spawnTimer, evalTimer, emitted, stdout, stderr, promise, firstEvent,
                   ranPastTimeout>>

\* the child's 'exit' event: spawn's own listener clears the timer of the timeout option
OnExit ==
    /\ LoopTurn
    /\ child = "exited"
    /\ "exit" \notin emitted
    /\ emitted' = emitted \cup {"exit"}
    /\ spawnTimer' = ClearTimeout(spawnTimer)
    /\ UNCHANGED <<evaluator, htmlVars, otherVars, pc, expected, syntaxResult, score, feedback, result, tempFile, child,
                   exitCode, sigterm, evalTimer, stdout, stderr, promise, firstEvent,
                   ranPastTimeout>>

\* child.on('close'): emitted after 'exit', or after the 'error' of a failed spawn,
\* once the stdio streams have ended
OnClose ==
    /\ LoopTurn
    /\ "close" \notin emitted
    /\ "exit" \in emitted \/ "error" \in emitted
    /\ emitted' = emitted \cup {"close"}
    /\ evalTimer' = ClearTimeout(evalTimer)
    /\ tempFile' = CleanUp(tempFile)
    /\ promise' = Resolve(promise, CloseResult(exitCode, stdout, stderr))
    /\ firstEvent' = First("close")
    /\ UNCHANGED <<evaluator, htmlVars, otherVars, pc, expected, syntaxResult, score, feedback, result, child, exitCode,
                   sigterm, spawnTimer, stdout, stderr, ranPastTimeout>>

\* child.on('error'): the spawn failed
OnError ==
    /\ ~MicrotaskPending
    /\ NextTickPending
    /\ emitted' = emitted \cup {"error"}
    /\ evalTimer' = ClearTimeout(evalTimer)
    /\ tempFile' = CleanUp(tempFile)
    /\ promise' = Resolve(promise, ErrorResult(<<"spawn npx ENOENT">>))
    /\ firstEvent' = First("error")
    /\ UNCHANGED <<evaluator, htmlVars, otherVars, pc, expected, syntaxResult, score, feedback, result, child, exitCode,
                   sigterm, spawnTimer, stdout, stderr, ranPastTimeout>>

\* the timer of spawn's timeout option: child.kill(killSignal)
SpawnTimerFires ==
    /\ LoopTurn
    /\ spawnTimer = "armed"
    /\ spawnTimer' = "fired"
    /\ sigterm' = Kill(child)
    /\ ranPastTimeout' = (ranPastTimeout \/ child = "running")
    /\ UNCHANGED <<evaluator, htmlVars, otherVars, pc, expected, syntaxResult, score, feedback, result, tempFile, child,
                   exitCode, evalTimer, emitted, stdout, stderr, promise, firstEvent>>

\* the evaluator's own timer: child.kill('SIGTERM'), resolve with the timeout result
EvalTimerFires ==
    /\ LoopTurn
    /\ evalTimer = "armed"
    /\ evalTimer' = "fired"
    /\ sigterm' = Kill(child)
    /\ promise' = Resolve(promise, TimeoutResult)
    /\ firstEvent' = First("timer")
    /\ ranPastTimeout' = (ranPastTimeout \/ child = "running")
    /\ UNCHANGED <<evaluator, htmlVars, otherVars, pc, expected, syntaxResult, score, feedback, result, tempFile, child,
                   exitCode, spawnTimer, emitted, stdout, stderr>>

(***************************************************************************)
(* HTMLEvaluator.  The HTML text is a sequence of tokens: a doctype, the   *)
(* openings of tags ("<html" ...), the ">" that closes a tag, and text.    *)
(***************************************************************************)
HtmlTokens == {"<!doctype", "<HTML", "<head", "<body", ">", "x"}

RECURSIVE HtmlUpTo(_)
HtmlUpTo(n) ==
    IF n = 0 THEN {<<>>}
    ELSE LET shorter == HtmlUpTo(n - 1)
         IN  shorter \cup {Append(h, t) : h \in {g \in shorter : Len(g) = n - 1}, t \in HtmlTokens}

UpperToken(t) == IF t = "<!doctype" THEN "<!DOCTYPE" ELSE t
LowerToken(t) == IF t = "<HTML" THEN "<html" ELSE t
HasToken(h, t) == \E i \in 1..Len(h) : h[i] = t

\* the number of matches of /<[a-z][^>]*>/gi: a tag opening up to the next ">"
TagOpenings == {"<HTML", "<head", "<body"}
RECURSIVE CountOpenTags(_)
CountOpenTags(h) ==
    IF h = <<>> THEN 0
    ELSE IF Head(h) \in TagOpenings /\ HasToken(Tail(h), ">")
         THEN LET close == CHOOSE j \in 2..Len(h) :
                              h[j] = ">" /\ \A k \in 2..(j - 1) : h[k] # ">"
              IN  1 + CountOpenTags(SubSeq(h, close + 1, Len(h)))
         ELSE CountOpenTags(Tail(h))

requiredTags == <<"<html", "<head", "<body">>

\* Math.round of score = 25 d + (found / 3) * 25 + 50 o, d and o being 0 or 1
RoundStructureScore(d, found, o) ==
    LET thirds == 3 * DoctypeWeight * d + found * RequiredTagsWeight + 3 * OpenTagsWeight * o
    IN  (2 * thirds + 3) \div 6

validateStructure(h) ==
    LET hasDoctype == HasToken([i \in 1..Len(h) |-> UpperToken(h[i])], "<!DOCTYPE")
        htmlLower == [i \in 1..Len(h) |-> LowerToken(h[i])]
        missing == SelectSeq(requiredTags, LAMBDA t : ~HasToken(htmlLower, t))
        foundTags == Len(requiredTags) - Len(missing)
        openTags == CountOpenTags(h)
    IN  [score |-> RoundStructureScore(IF hasDoctype THEN 1 ELSE 0, foundTags,
                                       IF openTags > 0 THEN 1 ELSE 0),
         has_doctype |-> hasDoctype,
         has_required_tags |-> foundTags = Len(requiredTags),
         issues |-> (IF hasDoctype THEN <<>> ELSE <<"Missing DOCTYPE declaration">>)
                    \o [i \in 1..Len(missing) |-> "Missing required tag: " \o missing[i] \o ">"]
                    \o (IF openTags > 0 THEN <<>> ELSE <<"No HTML tags found">>)]

StructureFeedback(sr) ==
    <<IF sr.has_doctype
      THEN Item("success", <<"DOCTYPE declaration present">>)
      ELSE Item("warning", <<"Missing DOCTYPE declaration">>),
      IF sr.has_required_tags
      THEN Item("success", <<"Required HTML tags present (html, head, body)">>)
      ELSE Item("warning", <<"Missing some required HTML tags">>)>>

StructureFullScore(sr) == sr.score

\* Math.round(structureResult.score * 0.5)
StructureOnlyScore(sr) == (sr.score + 1) \div 2

HtmlPassed(s) == s >= PassThreshold

\* the browser score and its feedback, from what evaluateInBrowser returned
RendersPoints(br) == IF br.renders THEN RendersWeight ELSE 0

ErrorsPoints(br) ==
    IF Len(br.errors) = 0 THEN NoErrorsWeight
    ELSE IF Len(br.errors) <= 2 THEN FewErrorsWeight ELSE 0

RenderTimePoints(br) ==
    IF br.render_time_ms > 0 /\ br.render_time_ms < FastRenderMs THEN FastRenderWeight
    ELSE IF br.render_time_ms < RenderMs THEN RenderWeight ELSE 0

BrowserScore(br) == RendersPoints(br) + ErrorsPoints(br) + RenderTimePoints(br)

BrowserFeedback(br) ==
    <<IF br.renders
      THEN Item("success", <<"HTML renders successfully in browser">>)
      ELSE Item("error", <<"HTML failed to render in browser">>),
      IF Len(br.errors) = 0
      THEN Item("success", <<"No console errors">>)
      ELSE IF Len(br.errors) <= 2
           THEN [level |-> "warning",
                 message |-> <<ToString(Len(br.errors)), " console error(s)">>,
                 details |-> br.errors]
           ELSE [level |-> "error",
                 message |-> <<ToString(Len(br.errors)), " console errors">>,
                 details |-> SubSeq(br.errors, 1, 3)]>>
    \o (IF br.render_time_ms > 0 /\ br.render_time_ms < FastRenderMs
        THEN <<Item("success", <<"Fast render time: ", ToString(br.render_time_ms), "ms">>)>>
        ELSE IF br.render_time_ms < RenderMs
             THEN <<Item("info", <<"Render time: ", ToString(br.render_time_ms), "ms">>)>>
             ELSE <<>>)
    \o (IF br.screenshot
        THEN <<Item("info", <<"Screenshot saved: ", "output/screenshots/test.png">>)>>
        ELSE <<>>)

HtmlDetails(sr, br) ==
    [renders |-> br.renders, errors |-> br.errors, warnings |-> br.warnings,
     screenshot |-> br.screenshot, render_time_ms |-> br.render_time_ms,
     has_doctype |-> sr.has_doctype, has_required_tags |-> sr.has_required_tags,
     structure_issues |-> sr.issues]

NoBrowserResult ==
    [renders |-> FALSE, errors |-> <<>>, warnings |-> <<>>, screenshot |-> FALSE,
     render_time_ms |-> 0]

HtmlResult(s, fb, sr, br) ==
    [score |-> s, passed |-> HtmlPassed(s), overall_score |-> s, feedback |-> fb,
     details |-> HtmlDetails(sr, br)]

\* the result of evaluate when evaluateInBrowser returned br
BrowserModeResult(sr, br) ==
    HtmlResult(BrowserScore(br), StructureFeedback(sr) \o BrowserFeedback(br), sr, br)

\* the result of evaluate when evaluateInBrowser threw
BrowserFailedResult(sr, message) ==
    HtmlResult(StructureOnlyScore(sr),
               StructureFeedback(sr)
               \o <<Item("warning", <<"Browser evaluation failed: ", message>>)>>,
               sr, NoBrowserResult)

\* the result of evaluate without Playwright
StaticResult(sr) ==
    HtmlResult(StructureOnlyScore(sr),
               StructureFeedback(sr)
               \o <<Item("info", <<"Using static HTML validation (Playwright not available)">>)>>,
               sr, NoBrowserResult)

\* what evaluateInBrowser returns
BrowserResult ==
    [renders |-> renders, errors |-> errors, warnings |-> warnings,
     screenshot |-> screenshotPath, render_time_ms |-> renderTime]

RenderTimes == {0, 1, FastRenderMs - 1, FastRenderMs, RenderMs - 1, RenderMs}

HtmlInit ==
    /\ playwrightAvailable \in (IF evaluator = "html" THEN BOOLEAN ELSE {FALSE})
    /\ hpc = "idle"
    /\ structureResult = validateStructure(<<>>)
    /\ errors = <<>>
    /\ warnings = <<>>
    /\ renders = FALSE
    /\ renderTime = 0
    /\ screenshotPath = FALSE
    /\ hresult = StaticResult(validateStructure(<<>>))

\* evaluate, up to its return (static validation) or to the await of evaluateInBrowser
htmlEvaluate(h) ==
    /\ structureResult' = validateStructure(h)
    /\ IF playwrightAvailable
       THEN /\ hpc' = "launching"
            /\ UNCHANGED hresult
       ELSE /\ hpc' = "returned"
            /\ hresult' = StaticResult(validateStructure(h))
    /\ UNCHANGED <<evaluator, tsVars, otherVars, playwrightAvailable, errors, warnings, renders,
                   renderTime, screenshotPath>>

\* a call of evaluate on some HTML text
HtmlEvaluate ==
    /\ evaluator = "html"
    /\ hpc = "idle"
    /\ \E h \in HtmlUpTo(MaxHtmlLen) : htmlEvaluate(h)

\* chromium.launch resolves or rejects; a rejection reaches evaluate's catch
Launch(ok) ==
    /\ hpc = "launching"
    /\ IF ok
       THEN /\ hpc' = "loading"
            /\ UNCHANGED hresult
       ELSE /\ hpc' = "returned"
            /\ hresult' = BrowserFailedResult(structureResult, "browser not installed")
    /\ UNCHANGED <<evaluator, tsVars, otherVars, playwrightAvailable, structureResult, errors,
                   warnings, renders, renderTime, screenshotPath>>

\* page.on('console'): a message of type error or warning (other types are ignored)
OnConsole(type) ==
    /\ hpc \in {"loading", "shooting"}
    /\ IF type = "warning"
       THEN /\ Len(warnings) < MaxWarnings
            /\ warnings' = Append(warnings, "deprecated")
            /\ UNCHANGED errors
       ELSE /\ Len(errors) < MaxErrors
            /\ errors' = Append(errors, "Uncaught Error")
            /\ UNCHANGED warnings
    /\ UNCHANGED <<evaluator, tsVars, otherVars, playwrightAvailable, hpc, structureResult,
                   renders, renderTime, hresult, screenshotPath>>

\* page.on('pageerror')
OnPageError ==
    /\ hpc \in {"loading", "shooting"}
    /\ Len(errors) < MaxErrors
    /\ errors' = Append(errors, "Error: Uncaught Error")
    /\ UNCHANGED <<evaluator, tsVars, otherVars, playwrightAvailable, hpc, structureResult,
                   warnings, renders, renderTime, hresult, screenshotPath>>

\* setContent and waitForLoadState resolved after t ms; then mkdirSync
PageLoads(t, mkdir) ==
    /\ hpc = "loading"
    /\ renderTime' = t
    /\ renders' = TRUE
    /\ IF mkdir
       THEN /\ screenshotPath' = TRUE
            /\ hpc' = "shooting"
            /\ UNCHANGED errors
       ELSE /\ errors' = Append(errors, "Browser error: EACCES")
            /\ hpc' = "closing"
            /\ UNCHANGED screenshotPath
    /\ UNCHANGED <<evaluator, tsVars, otherVars, playwrightAvailable, structureResult, warnings,
                   hresult>>

\* newPage, setContent or waitForLoadState rejected: the catch block
PageFails ==
    /\ hpc = "loading"
    /\ errors' = Append(errors, "Browser error: Timeout 5000ms exceeded")
    /\ hpc' = "closing"
    /\ UNCHANGED <<evaluator, tsVars, otherVars, playwrightAvailable, structureResult, warnings,
                   renders, renderTime, screenshotPath, hresult>>

\* page.screenshot resolves, or rejects into the catch block
Screenshot(ok) ==
    /\ hpc = "shooting"
    /\ errors' = IF ok THEN errors ELSE Append(errors, "Browser error: screenshot failed")
    /\ hpc' = "closing"
    /\ UNCHANGED <<evaluator, tsVars, otherVars, playwrightAvailable, structureResult, warnings,
                   renders, renderTime, screenshotPath, hresult>>

\* the finally block: browser.close resolves and evaluateInBrowser returns, or it
\* rejects and evaluate's catch runs
BrowserClose(ok) ==
    /\ hpc = "closing"
    /\ hpc' = "returned"
    /\ hresult' = IF ok
                  THEN BrowserModeResult(structureResult, BrowserResult)
                  ELSE BrowserFailedResult(structureResult, "browser has been closed")
    /\ UNCHANGED <<evaluator, tsVars, otherVars, playwrightAvailable, structureResult, errors,
                   warnings, renders, renderTime, screenshotPath>>

(***************************************************************************)
(* A direct call of compareOutput.  The ratios that strings within the     *)
(* bound produce have denominators up to 2 * (MaxCmpLen + 1); for these    *)
(* the exact arithmetic of SimilarityToScore and the double arithmetic of  *)
(* the code give the same points.                                          *)
(***************************************************************************)
NotCalled == "not called"

CompareIdle ==
    /\ cmpActual = <<>>
    /\ cmpExpected = <<>>
    /\ cmpResult = NotCalled

CompareInit ==
    /\ cmpActual \in StringsUpTo(MaxCmpLen)
    /\ cmpExpected \in StringsUpTo(MaxCmpLen)
    /\ cmpResult = NotCalled

CompareOutput ==
    /\ cmpResult = NotCalled
    /\ cmpResult' = compareOutput(cmpActual, cmpExpected)
    /\ UNCHANGED <<evalVars, benchVars, extractVars, concurrentVars, pluginVars, cmpActual, cmpExpected>>

(***************************************************************************)
(* extractCode.  The response is a sequence of lines (the text is the      *)
(* lines joined by newlines; the empty text is one empty line).  A line is *)
(* a fence with or without a tag (<fence> stands for the three backquotes), *)
(* an empty line, or a line of other text.                                 *)
(* No line has leading or trailing whitespace, so that trim removes the    *)
(* empty lines at both ends.                                               *)
(***************************************************************************)
FenceLines == {"<fence>typescript", "<fence>ts", "<fence>", "<fence>python"}
LineTokens == FenceLines \cup {"x", ""}

RECURSIVE LinesUpTo(_)
LinesUpTo(n) ==
    IF n = 1 THEN {<<l>> : l \in LineTokens}
    ELSE LET shorter == LinesUpTo(n - 1)
         IN  shorter \cup {Append(ls, l) : ls \in {t \in shorter : Len(t) = n - 1}, l \in LineTokens}

\* String.prototype.trim on a text given by its lines
RECURSIVE TrimLines(_)
TrimLines(ls) ==
    IF Len(ls) > 1 /\ Head(ls) = "" THEN TrimLines(Tail(ls))
    ELSE IF Len(ls) > 1 /\ ls[Len(ls)] = "" THEN TrimLines(SubSeq(ls, 1, Len(ls) - 1))
    ELSE ls

\* the three patterns, by the line that opens a match: the fence tagged typescript, the
\* fence tagged ts and the fence without a tag, each followed by \s*\n([\s\S]*?)\n<fence>
patterns == <<"<fence>typescript", "<fence>ts", "<fence>">>

\* the empty lines that follow line i, which \s* consumes before it backtracks
RECURSIVE BlankRun(_, _)
BlankRun(ls, i) ==
    IF i < Len(ls) /\ ls[i + 1] = "" THEN 1 + BlankRun(ls, i + 1) ELSE 0

\* the lines that can end the lazy group: those after line s that start with a fence
ClosingLines(ls, s) == {j \in (s + 1)..Len(ls) : ls[j] \in FenceLines}

\* the first lines of the group that \s*\n allows after the opening line i, those that lead
\* to a match; the regular expression engine takes the last of them first
GroupStarts(ls, i) ==
    {s \in (i + 1)..Min(i + BlankRun(ls, i) + 1, Len(ls)) : ClosingLines(ls, s) # {}}

SetMax(S) == CHOOSE x \in S : \A y \in S : y <= x
SetMin(S) == CHOOSE x \in S : \A y \in S : x <= y

\* the lines at which the pattern matches
MatchLines(ls, open) == {i \in 1..Len(ls) : ls[i] = open /\ GroupStarts(ls, i) # {}}

\* match[1] of response.match(pattern): the group of the leftmost match
MatchGroup(ls, open) ==
    LET i == SetMin(MatchLines(ls, open))
        s == SetMax(GroupStarts(ls, i))
        j == SetMin(ClosingLines(ls, s))
    IN  SubSeq(ls, s, j - 1)

RECURSIVE ExtractFrom(_, _)
ExtractFrom(ls, k) ==
    IF k > Len(patterns) THEN TrimLines(ls)
    ELSE IF MatchLines(ls, patterns[k]) # {} THEN TrimLines(MatchGroup(ls, patterns[k]))
    ELSE ExtractFrom(ls, k + 1)

extractCode(ls) == ExtractFrom(ls, 1)

ExtractIdle ==
    /\ response = <<"">>
    /\ extracted = NotCalled

ExtractInit ==
    /\ response \in LinesUpTo(MaxLines)
    /\ extracted = NotCalled

ExtractCode ==
    /\ extracted = NotCalled
    /\ extracted' = extractCode(response)
    /\ UNCHANGED <<evalVars, benchVars, compareVars, concurrentVars, pluginVars, response>>

(***************************************************************************)
(* Concurrent evaluate calls on one TypeScriptEvaluator.  Each call has    *)
(* valid syntax and its own code; the code of call c is named c.  The name *)
(* of the temp file is made of Date.now() and of a few base-36 digits of   *)
(* Math.random(): two calls that start in the same millisecond can draw    *)
(* the same name.                                                          *)
(***************************************************************************)
Calls == 1..MaxCalls
TempNames == {"temp_1_k3f9x.ts", "temp_1_q0z.ts"}
NoFile == "no file"

ConcurrentInit ==
    /\ files = [n \in TempNames |-> 0]
    /\ callPc = [c \in Calls |-> "idle"]
    /\ callFile = [c \in Calls |-> NoFile]
    /\ childRead = [c \in Calls |-> 0]
    /\ closed = [c \in Calls |-> FALSE]
    /\ callResult = [c \in Calls |-> 0]

\* evaluate up to the await: executeCode writes the temp file and spawns the child
CallEvaluate(c, name) ==
    /\ callPc[c] = "idle"
    /\ files' = [files EXCEPT ![name] = c]
    /\ callFile' = [callFile EXCEPT ![c] = name]
    /\ callPc' = [callPc EXCEPT ![c] = "awaiting"]
    /\ UNCHANGED <<evalVars, benchVars, compareVars, extractVars, pluginVars, childRead, closed, callResult>>

\* the child (ts-node) loads the file it was given the name of
ChildLoads(c) ==
    /\ callPc[c] # "idle"
    /\ ~closed[c]
    /\ childRead[c] = 0
    /\ childRead' = [childRead EXCEPT ![c] = IF files[callFile[c]] = 0 THEN -1
                                             ELSE files[callFile[c]]]
    /\ UNCHANGED <<evalVars, benchVars, compareVars, extractVars, pluginVars, files, callPc, callFile, closed,
                   callResult>>

\* the timer callback of call c, then the rest of evaluate
CallTimesOut(c) ==
    /\ callPc[c] = "awaiting"
    /\ ~closed[c]
    /\ callResult' = [callResult EXCEPT ![c] = -2]
    /\ callPc' = [callPc EXCEPT ![c] = "returned"]
    /\ UNCHANGED <<evalVars, benchVars, compareVars, extractVars, pluginVars, files, callFile, childRead, closed>>

\* the 'close' handler of call c: the file of that name is deleted and the promise is
\* resolved with what the child printed; then the rest of evaluate
ChildCloses(c) ==
    /\ callPc[c] # "idle"
    /\ ~closed[c]
    /\ childRead[c] # 0 \/ callPc[c] = "returned"
    /\ closed' = [closed EXCEPT ![c] = TRUE]
    /\ files' = [files EXCEPT ![callFile[c]] = 0]
    /\ IF callPc[c] = "awaiting"
       THEN /\ callResult' = [callResult EXCEPT ![c] = childRead[c]]
            /\ callPc' = [callPc EXCEPT ![c] = "returned"]
       ELSE UNCHANGED <<callResult, callPc>>
    /\ UNCHANGED <<evalVars, benchVars, compareVars, extractVars, pluginVars, callFile, childRead>>

(***************************************************************************)
(* PluginManager.  The registry is a map from lower-cased language to an   *)
(* evaluator instance; instances are named by their class or package and a *)
(* serial number, so that two instances of one class differ.               *)
(***************************************************************************)
RegistryKeys == {"typescript", "ts", "html", "python", "javascript", "js"}
\* language arguments of register and unregister
Languages == {"typescript", "ts", "html", "python", "Python", "TS"}
\* String.prototype.toLowerCase on a language name
LowerLanguage(l) == CASE l = "Python" -> "python" [] l = "TS" -> "ts" [] OTHER -> l

NoEvaluator == "no evaluator"
TsEvaluatorInstance == "TypeScriptEvaluator#0"
HtmlEvaluatorInstance == "HTMLEvaluator#0"
UserEvaluators == {"CustomEvaluator#0"}
BuiltinLanguages == {"typescript", "ts", "html"}

EmptyRegistry == [k \in RegistryKeys |-> NoEvaluator]

registerCaseSensitive(reg, language, ev) ==
    IF language \in RegistryKeys THEN [reg EXCEPT ![language] = ev] ELSE reg
MapDeleteKeeps(reg, key) == reg

\* this.evaluators.set(language.toLowerCase(), evaluator)
register(reg, language, ev) == [reg EXCEPT ![LowerLanguage(language)] = ev]
\* this.evaluators.delete(key)
MapDelete(reg, key) == [reg EXCEPT ![key] = NoEvaluator]

Range(s) == {s[i] : i \in 1..Len(s)}
\* A Map iterates its keys in the order of their insertion: set on a key that is present
\* keeps its place, set on an absent key appends it, delete removes it.
OrderSet(order, key) == IF key \in Range(order) THEN order ELSE Append(order, key)
OrderDelete(order, key) == SelectSeq(order, LAMBDA k : k # key)

\* register and the delete of a key, on the manager's fields
Set(st, language, ev) ==
    [st EXCEPT !.evaluators = register(st.evaluators, language, ev),
               !.keyOrder = OrderSet(st.keyOrder, LowerLanguage(language))]
Delete(st, key) ==
    [st EXCEPT !.evaluators = MapDelete(st.evaluators, key),
               !.keyOrder = OrderDelete(st.keyOrder, key)]

loadBuiltinEvaluators(st) ==
    Set(Set(Set(st, "typescript", TsEvaluatorInstance), "ts", TsEvaluatorInstance),
        "html", HtmlEvaluatorInstance)

\* The plugins the file system can hold: the package, the language its manifest declares,
\* what loading its module and instantiating its class comes to, and what the instance
\* reports from getLanguage().
Catalogue ==
    {[packageName |-> "bench-python", language |-> "python", load |-> "ok", reports |-> "Python"],
     [packageName |-> "bench-strict", language |-> "ts", load |-> "ok", reports |-> "typescript"],
     [packageName |-> "bench-idle", language |-> "ruby", load |-> "no evaluate", reports |-> "ruby"]}

\* the same, with a package for each way in which loading a plugin fails
DefectiveCatalogue ==
    {p \in Catalogue : p.packageName # "bench-strict"} \cup
    {[packageName |-> "bench-gone", language |-> "ruby", load |-> "require throws", reports |-> "ruby"],
     [packageName |-> "bench-empty", language |-> "ruby", load |-> "no export", reports |-> "ruby"],
     [packageName |-> "bench-throws", language |-> "ruby", load |-> "constructor throws", reports |-> "ruby"],
     [packageName |-> "bench-mute", language |-> "ruby", load |-> "no getLanguage", reports |-> "ruby"]}

\* what discoverPlugins() of plugin-discovery returns: the plugins found, in order
RECURSIVE PluginLists(_, _)
PluginLists(catalogue, n) ==
    IF n = 0 THEN {<<>>}
    ELSE LET shorter == PluginLists(catalogue, n - 1)
         IN  shorter \cup {Append(ps, p) : ps \in {q \in shorter : Len(q) = n - 1},
                                           p \in catalogue}

\* loadEvaluatorClass: the constructor found in the module, or undefined
loadEvaluatorClass(plugin) ==
    IF plugin.load \in {"require throws", "no export"} THEN "undefined" ELSE "class"
\* new EvaluatorClass() throws
ConstructorThrows(plugin) == plugin.load = "constructor throws"
isValidEvaluatorAny(plugin) == TRUE
\* isValidEvaluator on the instance
isValidEvaluator(plugin) == plugin.load \notin {"no getLanguage", "no evaluate"}

\* loadPlugin returns true
Loads(plugin) ==
    /\ loadEvaluatorClass(plugin) # "undefined"
    /\ ~ConstructorThrows(plugin)
    /\ isValidEvaluator(plugin)

Loadable(plugins) == Len(SelectSeq(plugins, Loads))

loadPluginUnderManifestKey(st, plugin) ==
    IF ~Loads(plugin) THEN st
    ELSE LET ev == plugin.packageName \o "#" \o ToString(st.instances + 1)
             registered == Set(st, plugin.language, ev)
         IN  [registered EXCEPT
                 !.loadedPlugins = Append(st.loadedPlugins,
                                          [language |-> plugin.language,
                                           packageName |-> plugin.packageName,
                                           evaluator |-> ev]),
                 !.instances = st.instances + 1]

\* loadPlugin, on the manager's fields
loadPlugin(st, plugin) ==
    IF loadEvaluatorClass(plugin) = "undefined" THEN st
    ELSE IF ConstructorThrows(plugin) THEN st
    ELSE IF ~isValidEvaluator(plugin) THEN st
    ELSE LET language == LowerLanguage(plugin.reports)
             ev == plugin.packageName \o "#" \o ToString(st.instances + 1)
             registered == Set(st, language, ev)
         IN  [registered EXCEPT
                 !.loadedPlugins = Append(st.loadedPlugins,
                                          [language |-> language,
                                           packageName |-> plugin.packageName,
                                           evaluator |-> ev]),
                 !.instances = st.instances + 1]

\* the loop of discoverPlugins over the plugins found
RECURSIVE LoadAll(_, _)
LoadAll(st, plugins) ==
    IF plugins = <<>> THEN st ELSE LoadAll(loadPlugin(st, Head(plugins)), Tail(plugins))

\* the loop of reloadPlugins over the ledger
RECURSIVE ClearLoaded(_, _)
ClearLoaded(st, ledger) ==
    IF ledger = <<>> THEN st ELSE ClearLoaded(Delete(st, Head(ledger).language), Tail(ledger))

\* UTF-16 code units of the keys, which Array.prototype.sort() compares
CodeUnits(k) ==
    CASE k = "html" -> <<104, 116, 109, 108>>
      [] k = "javascript" -> <<106, 97, 118, 97, 115, 99, 114, 105, 112, 116>>
      [] k = "js" -> <<106, 115>>
      [] k = "python" -> <<112, 121, 116, 104, 111, 110>>
      [] k = "ts" -> <<116, 115>>
      [] k = "typescript" -> <<116, 121, 112, 101, 115, 99, 114, 105, 112, 116>>

RECURSIVE UnitsLess(_, _)
UnitsLess(a, b) ==
    IF b = <<>> THEN FALSE
    ELSE IF a = <<>> THEN TRUE
    ELSE IF Head(a) # Head(b) THEN Head(a) < Head(b)
    ELSE UnitsLess(Tail(a), Tail(b))

KeyLess(j, k) == UnitsLess(CodeUnits(j), CodeUnits(k))

RECURSIVE InsertKey(_, _)
InsertKey(k, sorted) ==
    IF sorted = <<>> THEN <<k>>
    ELSE IF KeyLess(k, Head(sorted)) THEN <<k>> \o sorted
    ELSE <<Head(sorted)>> \o InsertKey(k, Tail(sorted))

SortKeysInsertionOrder(ks) == ks

\* Array.prototype.sort() with the default comparison
RECURSIVE SortKeys(_)
SortKeys(ks) == IF ks = <<>> THEN <<>> ELSE InsertKey(Head(ks), SortKeys(Tail(ks)))

Fields ==
    [evaluators |-> evaluators, keyOrder |-> keyOrder, loadedPlugins |-> loadedPlugins,
     instances |-> instances]

\* the keys of a registry
Registered(reg) == {k \in RegistryKeys : reg[k] # NoEvaluator}

listLanguages == SortKeys(keyOrder)
getEvaluator(language) == evaluators[LowerLanguage(language)]
hasEvaluator(language) == evaluators[LowerLanguage(language)] # NoEvaluator

\* what a call returns: nothing, or a boolean
Void == "void"
Bool(b) == IF b THEN "true" ELSE "false"

SetFields(st, op, args, ret, plugins) ==
    /\ evaluators' = st.evaluators
    /\ keyOrder' = st.keyOrder
    /\ loadedPlugins' = st.loadedPlugins
    /\ instances' = st.instances
    /\ lastOp' = op
    /\ arguments' = args
    /\ returned' = ret
    /\ tried' = plugins
    /\ before' = evaluators

PluginInit ==
    /\ constructed = FALSE
    /\ evaluators = EmptyRegistry
    /\ keyOrder = <<>>
    /\ loadedPlugins = <<>>
    /\ instances = 0
    /\ lastOp = "none"
    /\ arguments = <<>>
    /\ returned = Void
    /\ tried = <<>>
    /\ before = EmptyRegistry

\* new PluginManager(autoDiscover)
Constructor(autoDiscover, plugins) ==
    /\ ~constructed
    /\ constructed' = TRUE
    /\ LET builtin == loadBuiltinEvaluators(Fields)
       IN  SetFields(IF autoDiscover THEN LoadAll(builtin, plugins) ELSE builtin,
                     "constructor", <<>>, Void,
                     IF autoDiscover THEN plugins ELSE <<>>)
    /\ UNCHANGED <<evalVars, benchVars, compareVars, extractVars, concurrentVars>>

\* discoverPlugins()
DiscoverPlugins(plugins) ==
    /\ constructed
    /\ instances + Loadable(plugins) <= MaxInstances
    /\ SetFields(LoadAll(Fields, plugins), "discoverPlugins", <<>>, Void, plugins)
    /\ UNCHANGED <<evalVars, benchVars, compareVars, extractVars, concurrentVars, constructed>>

\* loadPluginFromPackage(packageName), for a package whose manifest declares one evaluator
LoadPluginFromPackage(plugin) ==
    /\ constructed
    /\ instances + Loadable(<<plugin>>) <= MaxInstances
    /\ SetFields(loadPlugin(Fields, plugin), "loadPluginFromPackage", <<>>, Bool(Loads(plugin)),
                 <<plugin>>)
    /\ UNCHANGED <<evalVars, benchVars, compareVars, extractVars, concurrentVars, constructed>>

\* register(language, evaluator)
Register(language, ev) ==
    /\ constructed
    /\ SetFields(Set(Fields, language, ev), "register", <<language, ev>>, Void, <<>>)
    /\ UNCHANGED <<evalVars, benchVars, compareVars, extractVars, concurrentVars, constructed>>

\* unregister(language)
Unregister(language) ==
    /\ constructed
    /\ SetFields(Delete(Fields, LowerLanguage(language)), "unregister", <<language>>,
                 Bool(hasEvaluator(language)), <<>>)
    /\ UNCHANGED <<evalVars, benchVars, compareVars, extractVars, concurrentVars, constructed>>

\* reloadPlugins()
ReloadPlugins(plugins) ==
    /\ constructed
    /\ instances + Loadable(plugins) <= MaxInstances
    /\ LET cleared == [ClearLoaded(Fields, loadedPlugins) EXCEPT !.loadedPlugins = <<>>]
       IN  SetFields(LoadAll(cleared, plugins), "reloadPlugins", <<>>, Void, plugins)
    /\ UNCHANGED <<evalVars, benchVars, compareVars, extractVars, concurrentVars, constructed>>

(***************************************************************************)
(* discoverPlugins of plugin-discovery.  A node_modules directory is the   *)
(* sequence of its entries, each entry being what the scan finds there; a  *)
(* discovered plugin is named by its root and its place in it.             *)
(***************************************************************************)
EntryKinds ==
    {"hidden",            \* a name that starts with a dot
     "plugin",            \* a package whose manifest declares one evaluator
     "plain",             \* a package whose manifest has no praisonaibench.evaluators
     "no manifest",       \* a directory without package.json
     "malformed",         \* a package whose package.json is not JSON
     "unreadable",        \* a package directory that cannot be read
     "scoped plugin",     \* a directory @org with one package that declares one evaluator
     "scope file",        \* a name that starts with @ and is no directory
     "unreadable scope",  \* a directory @org that cannot be read
     "dangling scope"}    \* a name that starts with @ and is a link to nowhere

RECURSIVE EntryLists(_)
EntryLists(n) ==
    IF n = 0 THEN {<<>>}
    ELSE LET shorter == EntryLists(n - 1)
         IN  shorter \cup {Append(es, e) : es \in {q \in shorter : Len(q) = n - 1},
                                           e \in EntryKinds}

CwdRoot == "<cwd>/node_modules"
SearchPathChoices ==
    {<<>>, <<"/nonexistent/path">>, <<"/empty">>, <<"/locked">>, <<"/extra/node_modules">>,
     <<CwdRoot>>}

\* the directory at a path
Root(path) ==
    CASE path = CwdRoot -> [state |-> cwdState, entries |-> nodeModules]
      [] path = "/nonexistent/path" -> [state |-> "missing", entries |-> <<>>]
      [] path = "/empty" -> [state |-> "readable", entries |-> <<>>]
      [] path = "/locked" -> [state |-> "unreadable", entries |-> <<>>]
      [] path = "/extra/node_modules" -> [state |-> "readable", entries |-> <<"plugin">>]

PluginAt(path, i) == [root |-> path, entry |-> i]

\* discoverPluginFromPackage: no package.json, a package.json that cannot be parsed and a
\* manifest without the field all give the empty list
discoverPluginFromPackage(path, i, kind) ==
    IF kind \in {"no manifest", "unreadable"} THEN <<>>
    ELSE IF kind = "malformed" THEN <<>>
    ELSE IF kind = "plain" THEN <<>>
    ELSE <<PluginAt(path, i)>>

\* statSync or readdirSync of a scope directory throws
ScopeThrows(kind) == kind \in {"unreadable scope", "dangling scope"}

ScopeThrowsNever(kind) == FALSE

\* the loop over the entries of one root, from entry i on; an exception leaves the loop
\* and is caught outside of it
RECURSIVE ScanEntries(_, _, _, _)
ScanEntries(path, entries, i, plugins) ==
    IF i > Len(entries) THEN plugins
    ELSE LET kind == entries[i]
         IN  IF kind = "hidden" THEN ScanEntries(path, entries, i + 1, plugins)
             ELSE IF kind \in {"scoped plugin", "scope file", "unreadable scope",
                               "dangling scope"}
                  THEN IF ScopeThrows(kind) THEN plugins
                       ELSE IF kind = "scope file"
                            THEN ScanEntries(path, entries, i + 1, plugins)
                            ELSE ScanEntries(path, entries, i + 1,
                                             plugins \o discoverPluginFromPackage(path, i, "plugin"))
                  ELSE ScanEntries(path, entries, i + 1,
                                   plugins \o discoverPluginFromPackage(path, i, kind))

\* the loop over the roots
RECURSIVE ScanRoots(_, _)
ScanRoots(paths, plugins) ==
    IF paths = <<>> THEN plugins
    ELSE LET root == Root(Head(paths))
         IN  IF root.state # "readable" THEN ScanRoots(Tail(paths), plugins)
             ELSE ScanRoots(Tail(paths), ScanEntries(Head(paths), root.entries, 1, plugins))

\* [...new Set(paths)]
RECURSIVE Dedupe(_)
Dedupe(paths) ==
    IF paths = <<>> THEN <<>>
    ELSE LET front == Dedupe(SubSeq(paths, 1, Len(paths) - 1))
             last == paths[Len(paths)]
         IN  IF last \in Range(front) THEN front ELSE Append(front, last)

getNodeModulesPathsOnlyAdditional(additionalPaths) == Dedupe(additionalPaths)

\* getNodeModulesPaths, in a working directory without parents that hold node_modules and
\* with NODE_PATH unset
getNodeModulesPaths(additionalPaths) == Dedupe(<<CwdRoot>> \o additionalPaths)

discoverPlugins(paths) == ScanRoots(getNodeModulesPaths(paths), <<>>)

DiscoveryIdle ==
    /\ cwdState = "readable"
    /\ nodeModules = <<>>
    /\ searchPaths = <<>>
    /\ discovered = NotCalled

DiscoveryInit ==
    /\ cwdState \in {"missing", "unreadable", "readable"}
    /\ nodeModules \in EntryLists(MaxEntries)
    /\ cwdState # "readable" => nodeModules = <<>>
    /\ searchPaths \in SearchPathChoices
    /\ discovered = NotCalled

\* discoverPlugins(searchPaths)
CallDiscoverPlugins ==
    /\ discovered = NotCalled
    /\ discovered' = <<discoverPlugins(searchPaths)>>
    /\ UNCHANGED <<evalVars, compareVars, extractVars, concurrentVars, pluginVars, detectVars,
                   agentVars, runVars, cwdState, nodeModules, searchPaths>>

(***************************************************************************)
(* Bench.detectLanguage.  A response is a sequence of tokens: the fence of *)
(* three backquotes, words, the character +, white space, and the two      *)
(* marks of an HTML document.  A language is the sequence of its tokens.    *)
(***************************************************************************)
WordTokens == {"TS", "Code"}
DetectTokens == {"<fence>", "+", " ", "<!DOCTYPE", "<html"} \cup WordTokens

RECURSIVE TokensUpTo(_)
TokensUpTo(n) ==
    IF n = 0 THEN {<<>>}
    ELSE LET shorter == TokensUpTo(n - 1)
         IN  shorter \cup {Append(ts, t) : ts \in {q \in shorter : Len(q) = n - 1},
                                           t \in DetectTokens}

\* String.prototype.toLowerCase on a token
LowerDetectToken(t) ==
    CASE t = "TS" -> "ts"
      [] t = "Code" -> "code"
      [] t = "<!DOCTYPE" -> "<!doctype"
      [] OTHER -> t
LowerTokens(ts) == [i \in 1..Len(ts) |-> LowerDetectToken(ts[i])]

\* the values of testConfig?.language
HintChoices == {Null, Str(<<>>), Str(<<"TS">>), Str(<<"Code">>)}

\* response.match of a fence followed by \w+: the place of the first fence that a word
\* follows, or 0
FenceMatch(r) ==
    LET places == {i \in 1..(Len(r) - 1) : r[i] = "<fence>" /\ r[i + 1] \in WordTokens}
    IN  IF places = {} THEN 0 ELSE SetMin(places)

\* the group \w+: the longest run of words from place i on
RECURSIVE WordRun(_, _)
WordRun(r, i) ==
    IF i > Len(r) \/ r[i] \notin WordTokens THEN <<>> ELSE <<r[i]>> \o WordRun(r, i + 1)

\* response.toLowerCase().includes('<!doctype') || response.toLowerCase().includes('<html')
HasHtmlIndicator(r) ==
    \E i \in 1..Len(r) : LowerTokens(r)[i] \in {"<!doctype", "<html"}

detectLanguage(r, hint) ==
    IF Truthy(hint) THEN LowerTokens(hint.text)
    ELSE LET match == FenceMatch(r)
             lang == IF match = 0 THEN <<>> ELSE LowerTokens(WordRun(r, match + 1))
         IN  IF match # 0 /\ lang # <<"code">> THEN lang
             ELSE IF HasHtmlIndicator(r) THEN <<"html">>
             ELSE <<"typescript">>

DetectIdle ==
    /\ detectResponse = <<>>
    /\ languageHint = Null
    /\ detected = NotCalled

DetectInit ==
    /\ detectResponse \in TokensUpTo(MaxTokens)
    /\ languageHint \in HintChoices
    /\ detected = NotCalled

\* detectLanguage(response, testConfig)
DetectLanguage ==
    /\ detected = NotCalled
    /\ detected' = <<detectLanguage(detectResponse, languageHint)>>
    /\ UNCHANGED <<evalVars, compareVars, extractVars, concurrentVars, pluginVars,
                   discoveryVars, agentVars, runVars, detectResponse, languageHint>>

(***************************************************************************)
(* One call, on either evaluator.                                          *)
(***************************************************************************)
(***************************************************************************)
(* BenchAgent.runTest.  An attempt is one pass of the loop body: the model  *)
(* is obtained and generateText is awaited.  It yields a text, a text of   *)
(* whitespace only, an empty or missing text, or an exception.             *)
(***************************************************************************)
DefaultMaxRetries == 3
MaxConfigRetries == 4

AttemptOutcomes == {"text", "blank", "empty", "throws"}

\* config.maxRetries || 3, with 0 standing for an absent (or zero) setting
EffectiveMaxRetries(config) == IF config = 0 THEN DefaultMaxRetries ELSE config

\* a mutant of waitTime: the same pause before every retry
waitTimeConstant(k) == 1000

\* Math.pow(2, attempt) * 1000
waitTime(k) == (2 ^ k) * 1000

\* `!response || response.trim().length === 0`
EmptyResponse(outcome) == outcome \in {"blank", "empty"}

SuccessResult(k) ==
    [status |-> "success", response |-> "text",
     retry_attempts |-> IF k > 0 THEN <<k + 1>> ELSE <<>>]

createErrorResult(error, attempts) ==
    [status |-> "error", response |-> "null", error |-> error,
     retry_attempts |-> <<attempts>>]

AgentIdle ==
    /\ maxRetries = DefaultMaxRetries
    /\ agentPc = "idle"
    /\ attempt = 0
    /\ outcomes = <<>>
    /\ waits = <<>>
    /\ testResult = <<>>

\* new BenchAgent(config)
AgentInit ==
    /\ maxRetries \in {EffectiveMaxRetries(c) : c \in 0..MaxConfigRetries}
    /\ agentPc = "idle"
    /\ attempt = 0
    /\ outcomes = <<>>
    /\ waits = <<>>
    /\ testResult = <<>>

\* runTest up to the first pass of the loop, or to the return after the loop
RunTest ==
    /\ agentPc = "idle"
    /\ attempt' = 0
    /\ IF 0 < maxRetries
       THEN /\ agentPc' = "calling"
            /\ UNCHANGED testResult
       ELSE /\ agentPc' = "returned"
            /\ testResult' = <<createErrorResult("Unknown error after retries", maxRetries)>>
    /\ UNCHANGED <<evalVars, compareVars, extractVars, concurrentVars, pluginVars,
                   discoveryVars, detectVars, runVars, maxRetries, outcomes, waits>>

\* `await this.sleep(waitTime)` at the head of a pass with attempt > 0
Sleep ==
    /\ agentPc = "sleeping"
    /\ waits' = Append(waits, waitTime(attempt))
    /\ agentPc' = "calling"
    /\ UNCHANGED <<evalVars, compareVars, extractVars, concurrentVars, pluginVars,
                   discoveryVars, detectVars, runVars, maxRetries, attempt, outcomes, testResult>>

\* the rest of the pass: getModelFromString and generateText, then the return, or
\* `continue` and the loop's test
Attempt(outcome) ==
    /\ agentPc = "calling"
    /\ outcomes' = Append(outcomes, outcome)
    /\ IF outcome # "throws" /\ ~EmptyResponse(outcome)
       THEN /\ testResult' = <<SuccessResult(attempt)>>
            /\ agentPc' = "returned"
            /\ UNCHANGED attempt
       ELSE IF attempt < maxRetries - 1
            THEN \* continue: attempt++ and the loop's test, which holds
                 /\ attempt' = attempt + 1
                 /\ agentPc' = "sleeping"
                 /\ UNCHANGED testResult
            ELSE /\ testResult' = <<createErrorResult(IF outcome = "throws"
                                                      THEN "Agent failed with model"
                                                      ELSE "Agent returned empty response",
                                                      attempt + 1)>>
                 /\ agentPc' = "returned"
                 /\ UNCHANGED attempt
    /\ UNCHANGED <<evalVars, compareVars, extractVars, concurrentVars, pluginVars,
                   discoveryVars, detectVars, runVars, maxRetries, waits>>

(***************************************************************************)
(* Bench.runSingleTest, from the return of agent.runTest on.  The plugin   *)
(* manager is the one the Bench constructor made (none if that has not     *)
(* run).  The cost tracker, which reads the agent's result only, is left   *)
(* out.                                                                    *)
(***************************************************************************)
RunPrompts == {"", "Create a page"}
RunResponses ==
    {<<>>, <<"Code">>, <<"<html">>, <<"<fence>", "TS">>, <<"<fence>", "TS", "Code">>}
EvaluateOutcomes == {"resolves", "throws", "rejects"}
MaxResults == 2

\* the key a detected language is looked up under: its text, when that is one of the keys
\* the model's registry can hold
LanguageKey(lang) == IF Len(lang) = 1 /\ lang[1] \in RegistryKeys THEN lang[1] ELSE "none"

\* this.pluginManager.getEvaluator(detectedLanguage)
EvaluatorFor(lang) ==
    IF LanguageKey(lang) = "none" THEN NoEvaluator ELSE getEvaluator(LanguageKey(lang))

\* const benchResult = { ...result }
BenchResult(res) == [status |-> res.status, response |-> res.response,
                     evaluation |-> <<>>, language |-> <<>>]

\* what agent.runTest returns: a success with a response, or an error without
AgentResults ==
    {[status |-> "success", response |-> r] : r \in RunResponses \ {<<>>}}
    \cup {[status |-> "error", response |-> <<>>]}

\* a mutant of evaluateEnded: an evaluator's exception leaves runSingleTest
evaluateEndedRethrows(br, lang, outcome) ==
    IF outcome = "resolves"
    THEN [pc |-> "returned",
          benchResult |-> [br EXCEPT !.evaluation = <<"evaluation">>, !.language = lang],
          log |-> <<<<"Overall Score: ">>, <<"Status: ">>>>]
    ELSE [pc |-> "threw", benchResult |-> br, log |-> <<>>]

\* the try block around `await evaluator.evaluate(...)` and its catch
evaluateEnded(br, lang, outcome) ==
    IF outcome = "resolves"
    THEN [pc |-> "returned",
          benchResult |-> [br EXCEPT !.evaluation = <<"evaluation">>, !.language = lang],
          log |-> <<<<"Overall Score: ">>, <<"Status: ">>>>]
    ELSE [pc |-> "returned", benchResult |-> br,
          log |-> <<<<"Evaluation failed: ", outcome>>>>]

RunIdle ==
    /\ runPc = "idle"
    /\ runArgs = <<>>
    /\ runLanguage = <<>>
    /\ evalOutcome = "none"
    /\ runLog = <<>>
    /\ benchResult = <<>>
    /\ results = <<>>

\* runSingleTest(prompt, model, testName, expected, language), with what agent.runTest
\* returned; up to the throw, the await of evaluate, or the return
RunSingleTest(prompt, res, hint) ==
    /\ runPc \in {"idle", "returned", "threw"}
    /\ Len(results) < MaxResults
    /\ runArgs' = [prompt |-> prompt, result |-> res, language |-> hint]
    /\ evalOutcome' = "none"
    /\ IF prompt = ""
       THEN /\ runPc' = "threw"
            /\ runLog' = <<>>
            /\ UNCHANGED <<runLanguage, benchResult, results>>
       ELSE IF constructed /\ res.status = "success" /\ res.response # <<>>
            THEN LET lang == detectLanguage(res.response, hint)
                 IN  /\ runLanguage' = lang
                     /\ benchResult' = BenchResult(res)
                     /\ IF EvaluatorFor(lang) # NoEvaluator
                        THEN /\ runLog' = <<<<"Using ", lang, " evaluator...">>>>
                             /\ runPc' = "evaluating"
                             /\ UNCHANGED results
                        ELSE /\ runLog' = <<<<"No evaluator found for language: ", lang>>,
                                            <<"Available: ", listLanguages>>>>
                             /\ runPc' = "returned"
                             /\ results' = Append(results, BenchResult(res))
            ELSE /\ runLanguage' = <<>>
                 /\ runLog' = <<>>
                 /\ benchResult' = BenchResult(res)
                 /\ runPc' = "returned"
                 /\ results' = Append(results, BenchResult(res))
    /\ UNCHANGED <<evalVars, compareVars, extractVars, concurrentVars, pluginVars,
                   discoveryVars, detectVars, agentVars>>

\* evaluator.evaluate returns a result, throws, or returns a promise that rejects; then
\* the rest of runSingleTest
EvaluateEnds(outcome) ==
    /\ runPc = "evaluating"
    /\ evalOutcome' = outcome
    /\ LET after == evaluateEnded(benchResult, runLanguage, outcome)
       IN  /\ runPc' = after.pc
           /\ benchResult' = after.benchResult
           /\ runLog' = runLog \o after.log
           /\ results' = IF after.pc = "returned" THEN Append(results, after.benchResult)
                         ELSE results
    /\ UNCHANGED <<evalVars, compareVars, extractVars, concurrentVars, pluginVars,
                   discoveryVars, detectVars, agentVars, runArgs, runLanguage>>

Init ==
    /\ evaluator \in {"typescript", "html"}
    /\ TsInit
    /\ HtmlInit
    /\ CompareIdle
    /\ ExtractIdle
    /\ ConcurrentInit
    /\ PluginInit
    /\ DiscoveryIdle
    /\ DetectIdle
    /\ AgentIdle
    /\ RunIdle

Next ==
    \/ Evaluate
    \/ Resume
    \/ \E c \in Chars : OnStdoutData(c)
    \/ \E c \in {" ", "E"} : OnStderrData(c)
    \/ ChildDies
    \/ \E code \in ExitCodes : ChildExits(code)
    \/ OnExit
    \/ OnClose
    \/ OnError
    \/ SpawnTimerFires
    \/ EvalTimerFires
    \/ HtmlEvaluate
    \/ \E ok \in BOOLEAN : Launch(ok)
    \/ \E type \in {"error", "warning"} : OnConsole(type)
    \/ OnPageError
    \/ \E t \in RenderTimes, mkdir \in BOOLEAN : PageLoads(t, mkdir)
    \/ PageFails
    \/ \E ok \in BOOLEAN : Screenshot(ok)
    \/ \E ok \in BOOLEAN : BrowserClose(ok)

Spec == Init /\ [][Next]_vars

\* The event loop runs every callback that is due: the continuation of a settled
\* await, the 'error' event queued by a failed spawn, and a timer that has expired.
\* Nothing is assumed of the child process: it may run for ever.
LoopFairness ==
    /\ WF_vars(Resume)
    /\ WF_vars(OnError)
    /\ WF_vars(EvalTimerFires)

\* Calls of TypeScriptEvaluator.evaluate alone, under that scheduling.  What the
\* child writes plays no part in when the promise settles: each data event
\* delivers the same character.
InitLive == Init /\ evaluator = "typescript"

\* a call of evaluate; the expected value is used only after the await, so one
\* absent and one one-letter value stand for all
LiveExpected == {NotSupplied} \cup {Supplied(<<c>>) : c \in Letters}

EvaluateLive ==
    /\ evaluator = "typescript"
    /\ pc = "idle"
    /\ \E e \in LiveExpected, sr \in validateSyntax, w \in WriteOutcomes, sp \in SpawnOutcomes :
          evaluate(e, sr, w, sp)

NextLive ==
    \/ EvaluateLive
    \/ Resume
    \/ OnStdoutData("a")
    \/ OnStderrData("E")
    \/ ChildDies
    \/ \E code \in ExitCodes : ChildExits(code)
    \/ OnExit
    \/ OnClose
    \/ OnError
    \/ SpawnTimerFires
    \/ EvalTimerFires

SpecLive == InitLive /\ [][NextLive]_vars /\ LoopFairness

(***************************************************************************)
(* One direct call of compareOutput, and one of extractCode, on an         *)
(* evaluator that is not evaluating.                                       *)
(***************************************************************************)
EvalIdle == evaluator = "typescript" /\ TsInit /\ HtmlInit

InitCompare == EvalIdle /\ CompareInit /\ ExtractIdle /\ ConcurrentInit /\ PluginInit
    /\ DiscoveryIdle /\ DetectIdle /\ AgentIdle /\ RunIdle
NextCompare == CompareOutput
SpecCompare == InitCompare /\ [][NextCompare]_vars

InitExtract == EvalIdle /\ CompareIdle /\ ExtractInit /\ ConcurrentInit /\ PluginInit
    /\ DiscoveryIdle /\ DetectIdle /\ AgentIdle /\ RunIdle
NextExtract == ExtractCode
SpecExtract == InitExtract /\ [][NextExtract]_vars

(***************************************************************************)
(* Several evaluate calls in flight on one evaluator.                      *)
(***************************************************************************)
InitConcurrent == EvalIdle /\ CompareIdle /\ ExtractIdle /\ ConcurrentInit /\ PluginInit
    /\ DiscoveryIdle /\ DetectIdle /\ AgentIdle /\ RunIdle
NextConcurrent ==
    \/ \E c \in Calls, name \in TempNames : CallEvaluate(c, name)
    \/ \E c \in Calls : ChildLoads(c)
    \/ \E c \in Calls : CallTimesOut(c)
    \/ \E c \in Calls : ChildCloses(c)
SpecConcurrent == InitConcurrent /\ [][NextConcurrent]_vars

(***************************************************************************)
(* A PluginManager and the calls made on it.                               *)
(***************************************************************************)
InitPlugins == EvalIdle /\ CompareIdle /\ ExtractIdle /\ ConcurrentInit /\ PluginInit
    /\ DiscoveryIdle /\ DetectIdle /\ AgentIdle /\ RunIdle
NextPlugins ==
    \/ \E autoDiscover \in BOOLEAN, plugins \in PluginLists(Catalogue, MaxDiscovered) :
          Constructor(autoDiscover, plugins)
    \/ \E plugins \in PluginLists(Catalogue, MaxDiscovered) : DiscoverPlugins(plugins)
    \/ \E plugin \in Catalogue : LoadPluginFromPackage(plugin)
    \/ \E language \in Languages, ev \in UserEvaluators : Register(language, ev)
    \/ \E language \in Languages : Unregister(language)
    \/ \E plugins \in PluginLists(Catalogue, MaxDiscovered) : ReloadPlugins(plugins)
SpecPlugins == InitPlugins /\ [][NextPlugins]_vars

(***************************************************************************)
(* A PluginManager that loads plugins, of which some cannot be loaded.     *)
(***************************************************************************)
NextLoad ==
    \/ \E autoDiscover \in BOOLEAN, plugins \in PluginLists(DefectiveCatalogue, MaxFound) :
          Constructor(autoDiscover, plugins)
    \/ \E plugins \in PluginLists(DefectiveCatalogue, MaxFound) : DiscoverPlugins(plugins)
    \/ \E plugin \in DefectiveCatalogue : LoadPluginFromPackage(plugin)
    \/ \E plugins \in PluginLists(DefectiveCatalogue, MaxFound) : ReloadPlugins(plugins)
SpecLoad == InitPlugins /\ [][NextLoad]_vars

(***************************************************************************)
(* One call of discoverPlugins, on every file system within the bounds.    *)
(***************************************************************************)
InitDiscovery ==
    EvalIdle /\ CompareIdle /\ ExtractIdle /\ ConcurrentInit /\ PluginInit
    /\ DiscoveryInit /\ DetectIdle /\ AgentIdle /\ RunIdle
NextDiscovery == CallDiscoverPlugins
SpecDiscovery == InitDiscovery /\ [][NextDiscovery]_vars

(***************************************************************************)
(* One call of detectLanguage, on every response and hint within the       *)
(* bounds.                                                                 *)
(***************************************************************************)
InitDetect ==
    EvalIdle /\ CompareIdle /\ ExtractIdle /\ ConcurrentInit /\ PluginInit
    /\ DiscoveryIdle /\ DetectInit /\ AgentIdle /\ RunIdle
NextDetect == DetectLanguage
SpecDetect == InitDetect /\ [][NextDetect]_vars

\* calls of BenchAgent.runTest
InitAgent ==
    EvalIdle /\ CompareIdle /\ ExtractIdle /\ ConcurrentInit /\ PluginInit
    /\ DiscoveryIdle /\ DetectIdle /\ AgentInit /\ RunIdle
NextAgent ==
    \/ RunTest
    \/ Sleep
    \/ \E outcome \in AttemptOutcomes : Attempt(outcome)
SpecAgent == InitAgent /\ [][NextAgent]_vars

\* the Bench constructor with enableEvaluation: new PluginManager(), before any test
NewBench(autoDiscover, plugins) ==
    /\ runArgs = <<>>
    /\ Constructor(autoDiscover, plugins)

\* a Bench, made with or without a plugin manager, on which runSingleTest is called
NextRun ==
    \/ \E autoDiscover \in BOOLEAN, plugins \in PluginLists(Catalogue, MaxDiscovered) :
          NewBench(autoDiscover, plugins)
    \/ \E prompt \in RunPrompts, res \in AgentResults, hint \in HintChoices :
          RunSingleTest(prompt, res, hint)
    \/ \E outcome \in EvaluateOutcomes : EvaluateEnds(outcome)
SpecRun == InitPlugins /\ [][NextRun]_vars

(***************************************************************************)
(* Properties.                                                             *)
(***************************************************************************)
Returned == pc = "returned"
ExecutionRan == Returned /\ syntaxResult.isValid
ExecutionSucceeded == ExecutionRan /\ promise.value.success
ExecutionFailed == ExecutionRan /\ ~promise.value.success
Mentions(message, token) == \E i \in 1..Len(message) : message[i] = token

\* C1: every result of TypeScriptEvaluator.evaluate and of HTMLEvaluator.evaluate (browser
\* mode and structure-only mode) has 0 <= score <= 100 and passed = (score >= 70).
C1_ScoreRangeAndPassed ==
    /\ Returned =>
          /\ result.score \in 0..100
          /\ result.passed = (result.score >= 70)
    /\ hpc = "returned" =>
          /\ hresult.score \in 0..100
          /\ hresult.passed = (hresult.score >= 70)

C1_Witness == Returned /\ result.score = 70 /\ result.passed

\* C2: a sample that fails syntax validation yields score 0, passed = false and exactly one
\* feedback item, of level error; no temp file is written and no child is spawned,
\* whatever expected value is supplied.
C2_SyntaxErrorShortCircuits ==
    (Returned /\ ~syntaxResult.isValid) =>
        /\ result.score = 0
        /\ ~result.passed
        /\ Len(result.feedback) = 1
        /\ result.feedback[1].level = "error"
        /\ tempFile = "none"
        /\ child = "none"
        /\ ~promise.settled
        /\ spawnTimer = "unset" /\ evalTimer = "unset"

C2_Witness == Returned /\ ~syntaxResult.isValid /\ ExpectedGiven(expected)

\* C3: valid syntax, a successful execution and no expected value give score 70 and
\* passed = true.
C3_NoExpectedScoresSeventy ==
    (ExecutionSucceeded /\ ~expected.supplied) =>
        /\ result.score = 70
        /\ result.passed

C3_Witness == ExecutionSucceeded /\ ~expected.supplied /\ firstEvent = "close"

\* C4, as claimed: with no expected value the comparison stage awards the full 30 points.
C4_Claimed ==
    (ExecutionSucceeded /\ ~expected.supplied) =>
        result.details.score_breakdown.output_match = 30

\* C4, amended: with no expected value the comparison stage awards no points: the
\* output_match contribution is 0 and the score is what syntax and execution earned.
C4_NoExpectedAwardsNothing ==
    (ExecutionRan /\ ~expected.supplied) =>
        /\ result.details.score_breakdown.output_match = 0
        /\ result.score = 30 + (IF promise.value.success THEN 40 ELSE 0)

C4_Witness ==
    /\ ExecutionSucceeded /\ ~expected.supplied
    /\ result.details.score_breakdown = [syntax |-> 30, execution |-> 40, output_match |-> 0]

\* C5: a sample that runs past the timeout yields an execution-stage score of 0 and a
\* feedback item whose message contains 'Timeout', in every interleaving of the two
\* timers and the child's close event.
C5_TimeoutIsReported ==
    (Returned /\ ranPastTimeout) =>
        /\ result.details.score_breakdown.execution = 0
        /\ \E i \in 1..Len(result.feedback) : Mentions(result.feedback[i].message, "Timeout")

\* C6: when execution timed out, the child has exited by the time evaluate returns.
C6_NoChildOutlivesEvaluate ==
    (Returned /\ promise.settled /\ promise.value = TimeoutResult) => child # "running"

\* C7: once evaluate has returned, the temp file it created no longer exists.
C7_TempFileDeleted == Returned => tempFile # "exists"

\* C8: the first of timer expiry, 'close' and 'error' decides the result of executeCode, and
\* no later event changes a result that was delivered.
C8_FirstEventDecides ==
    /\ [](promise.settled =>
            promise.value = CASE firstEvent = "timer" -> TimeoutResult
                              [] firstEvent = "close" -> CloseResult(exitCode, stdout, stderr)
                              [] firstEvent = "error" -> ErrorResult(<<"spawn npx ENOENT">>)
                              [] OTHER -> promise.value)
    /\ [][(promise.settled => promise' = promise) /\ (Returned => result' = result)]_vars

C8_Witness ==
    /\ Returned /\ firstEvent = "timer" /\ "close" \in emitted
    /\ CloseResult(exitCode, stdout, stderr) # TimeoutResult

\* C9: spawn errors, errors writing the temp file, non-zero exits and timeouts all resolve
\* the promise of executeCode with success = false and a non-empty error message.
C9_FailuresBecomeResults ==
    LET failed == \/ firstEvent \in {"catch", "error", "timer"}
                  \/ firstEvent = "close" /\ exitCode # "0"
        handled == \/ "close" \in emitted
                   \/ "error" \in emitted
                   \/ evalTimer = "fired"
                   \/ pc # "idle" /\ syntaxResult.isValid /\ child = "none"
    IN  /\ handled => promise.settled
        /\ (promise.settled /\ failed) =>
              /\ ~promise.value.success
              /\ ~promise.value.error.isNull
              /\ promise.value.error.text # <<>>
        /\ (Returned /\ failed) =>
              \E i \in 1..Len(result.feedback) : result.feedback[i].level = "error"

C9_Witness ==
    Returned /\ firstEvent = "close" /\ exitCode = "1" /\ Trim(stderr) = <<>> /\ stderr # <<>>

\* C10: valid syntax, a failed execution (non-zero exit, timeout or spawn failure alike) and
\* no expected value give score 30 and passed = false.
C10_FailedExecutionScoresThirty ==
    (ExecutionFailed /\ ~expected.supplied) =>
        /\ result.score = 30
        /\ ~result.passed

C10_Witness == ExecutionFailed /\ ~expected.supplied /\ firstEvent = "timer"

SkipItem == Item("error", <<"Cannot compare output - code did not execute">>)
LastItem(fb) == fb[Len(fb)]

\* C11, as claimed: after a failed execution the comparison stage awards 0 points and
\* appends an error feedback item noting that the comparison was skipped.
C11_Claimed ==
    ExecutionFailed =>
        /\ result.details.score_breakdown.output_match = 0
        /\ LastItem(result.feedback) = SkipItem

\* C11, amended: after a failed execution the pipeline is not aborted (the result carries the
\* execution outcome and the score breakdown), the comparison stage awards 0 points, and it
\* appends the error item about the skipped comparison exactly when a non-empty expected
\* value was supplied.
C11_SkipBranchNeedsExpected ==
    ExecutionFailed =>
        /\ result.details.score_breakdown.output_match = 0
        /\ result.score = 30
        /\ {"executed", "error", "score_breakdown"} \subseteq result.details.has
        /\ ~result.details.executed
        /\ (LastItem(result.feedback) = SkipItem) = ExpectedGiven(expected)
        /\ \A i \in 1..(Len(result.feedback) - 1) : result.feedback[i] # SkipItem

C11_Witness ==
    ExecutionFailed /\ ExpectedGiven(expected) /\ LastItem(result.feedback) = SkipItem

SuccessItems(fb) == {i \in 1..Len(fb) : fb[i].level = "success"}

\* C16: valid syntax, a successful execution and an output that is exactly the expected value
\* give score 100, passed = true and exactly three feedback items of level success.
C16_PerfectScore ==
    (ExecutionSucceeded /\ ExpectedGiven(expected)
        /\ promise.value.output.text = Trim(expected.text)) =>
        /\ result.score = 100
        /\ result.passed
        /\ Cardinality(SuccessItems(result.feedback)) = 3

C16_Witness ==
    /\ ExecutionSucceeded /\ ExpectedGiven(expected)
    /\ promise.value.output.text = expected.text
    /\ Len(result.feedback) = 4

\* C17: every result of evaluate, the early return after a syntax error included, carries
\* details.score_breakdown.
C17_BreakdownOnEveryPath == Returned => "score_breakdown" \in result.details.has

\* the pipeline stage a feedback item belongs to, from the literal part that starts its message
StageOf(item) ==
    IF Head(item.message) \in {"Valid TypeScript syntax", "Imports: ", "Syntax error: "} THEN 1
    ELSE IF Head(item.message) \in {"Code executed successfully", "Output: ", "Runtime error: "}
         THEN 2
         ELSE 3

\* C18: the feedback of every result is in stage order: syntax items, then execution items,
\* then comparison items.
C18_FeedbackInStageOrder ==
    Returned =>
        \A i, j \in 1..Len(result.feedback) :
            i < j => StageOf(result.feedback[i]) <= StageOf(result.feedback[j])

C18_Witness ==
    /\ Returned
    /\ Len(result.feedback) = 6
    /\ {StageOf(result.feedback[i]) : i \in 1..Len(result.feedback)} = {1, 2, 3}


Compared == cmpResult # NotCalled
Normalized(str) == ToLowerCase(Trim(str))

\* C13: compareOutput returns score 30 and similarity 1.0 when actual and expected are equal
\* after trimming, and when they differ only in letter case after trimming.
C13_EqualOrCaseOnly ==
    (Compared /\ Normalized(cmpActual) = Normalized(cmpExpected)) =>
        /\ cmpResult[1] = 30
        /\ cmpResult[2] = Rat(1, 1)

C13_Witness ==
    /\ Compared
    /\ Trim(cmpActual) # Trim(cmpExpected)
    /\ Normalized(cmpActual) = Normalized(cmpExpected)
    /\ cmpResult = <<30, Rat(1, 1)>>

\* C14, as claimed: if either normalized string is a substring of the other, the similarity
\* is at least 0.85.
C14_Claimed ==
    (Compared /\ (\/ Includes(Normalized(cmpActual), Normalized(cmpExpected))
                  \/ Includes(Normalized(cmpExpected), Normalized(cmpActual)))) =>
        RatGeq(cmpResult[2], 85, 100)

\* C14, amended: the similarity is at least 0.85 if the normalized expected string is a
\* substring of the normalized actual string; otherwise it is the plain ratio
\* 2 * LCS / (len + len), also when actual is a substring of expected.
C14_FloorWhenExpectedInsideActual ==
    Compared =>
        IF Includes(Normalized(cmpActual), Normalized(cmpExpected))
        THEN RatGeq(cmpResult[2], 85, 100)
        ELSE LET lcs == longestCommonSubsequence(Normalized(cmpActual), Normalized(cmpExpected))
                 len == Len(Normalized(cmpActual)) + Len(Normalized(cmpExpected))
             IN  cmpResult[2].num * len = 2 * lcs * cmpResult[2].den

C14_Witness ==
    /\ Compared
    /\ Normalized(cmpActual) # Normalized(cmpExpected)
    /\ Normalized(cmpExpected) # <<>>
    /\ Includes(Normalized(cmpActual), Normalized(cmpExpected))
    /\ ~RatGeq(calculateSimilarity(Normalized(cmpActual), Normalized(cmpExpected)), 85, 100)
    /\ cmpResult[2] = Rat(85, 100)

Extracted == extracted # NotCalled

\* the fenced blocks of a text, in order: a fence line opens a block, the next fence line
\* without a tag closes it, and the lines between are its content
RECURSIVE Blocks(_, _)
Blocks(ls, i) ==
    IF i > Len(ls) THEN <<>>
    ELSE LET closing == {j \in (i + 1)..Len(ls) : ls[j] = "<fence>"}
         IN  IF ls[i] \in FenceLines /\ closing # {}
             THEN <<[open |-> ls[i], content |-> SubSeq(ls, i + 1, SetMin(closing) - 1)]>>
                  \o Blocks(ls, SetMin(closing) + 1)
             ELSE Blocks(ls, i + 1)

BlockText(content) == IF content = <<>> THEN <<"">> ELSE TrimLines(content)

\* the content of the first block tagged typescript, else tagged ts, else without a tag, else
\* the whole text
RECURSIVE Cascade(_, _)
Cascade(ls, k) ==
    IF k > Len(patterns) THEN TrimLines(ls)
    ELSE LET tagged == SelectSeq(Blocks(ls, 1), LAMBDA b : b.open = patterns[k])
         IN  IF tagged # <<>> THEN BlockText(tagged[1].content) ELSE Cascade(ls, k + 1)

\* C19: extractCode returns the content of the block tagged typescript if there is one, else
\* of the block tagged ts, else of the block without a tag, else the whole trimmed input; a
\* block with another tag is never taken for the block without a tag.
C19_ExtractCascade == Extracted => extracted = Cascade(response, 1)


\* C12: concurrent evaluate calls on one evaluator never interfere: each call has its own
\* temp file, whose content no other call replaces or deletes before the call's child has
\* loaded it, each child runs the code of its own call, and each call returns the result it
\* would return alone (its own output, or a timeout).
C12_NoInterference ==
    \A c \in Calls :
        /\ \A d \in Calls \ {c} : callFile[c] # NoFile => callFile[c] # callFile[d]
        /\ (callPc[c] = "awaiting" /\ childRead[c] = 0) => files[callFile[c]] = c
        /\ childRead[c] \in {0, c}
        /\ callPc[c] = "returned" => callResult[c] \in {c, -2}


\* C20: reloadPlugins removes only entries that plugin discovery added: a built-in language
\* that was registered is still registered after reloadPlugins, and an entry that held a
\* built-in evaluator or one given to register() holds the same evaluator afterwards.
C20_ReloadKeepsBuiltinsAndRegistered ==
    lastOp = "reloadPlugins" =>
        \A k \in RegistryKeys :
            /\ (k \in BuiltinLanguages /\ before[k] # NoEvaluator) => evaluators[k] # NoEvaluator
            /\ before[k] \in {TsEvaluatorInstance, HtmlEvaluatorInstance} \cup UserEvaluators
                  => evaluators[k] = before[k]


\* C21: after any sequence of register, unregister, plugin loads and reloadPlugins,
\* listLanguages() returns exactly the keys of the registry, each once, in ascending order
\* of their code units.
C21_ListLanguagesSorted ==
    /\ Range(listLanguages) = Registered(evaluators)
    /\ \A i, j \in 1..Len(listLanguages) :
          i < j => KeyLess(listLanguages[i], listLanguages[j])

C21_Witness ==
    /\ lastOp = "reloadPlugins"
    /\ keyOrder = <<"typescript", "ts", "html", "python">>
    /\ listLanguages = <<"html", "python", "ts", "typescript">>

\* C22: register(L, e) for a language that is registered under any letter case replaces its
\* entry: the number of entries is unchanged, and afterwards getEvaluator(L') is e and
\* hasEvaluator(L') is true for every case variant L' of L.
C22_RegisterReplacesAnyCase ==
    [][(lastOp' = "register" /\ hasEvaluator(arguments'[1])) =>
          /\ Cardinality(Registered(evaluators')) = Cardinality(Registered(evaluators))
          /\ \A variant \in Languages :
                LowerLanguage(variant) = LowerLanguage(arguments'[1]) =>
                    /\ evaluators'[LowerLanguage(variant)] = arguments'[2]
                    /\ evaluators'[LowerLanguage(variant)] # NoEvaluator]_vars

C22_Witness ==
    /\ lastOp = "register"
    /\ arguments[1] = "Python"
    /\ before["python"] \notin UserEvaluators \cup {NoEvaluator}
    /\ getEvaluator("Python") \in UserEvaluators
    /\ getEvaluator("python") \in UserEvaluators

\* C23: unregister(L) for a language that is not registered returns false and changes
\* neither the registry nor the ledger; for a registered language it returns true,
\* hasEvaluator(L) is false afterwards and every other entry is unchanged.
C23_UnregisterReturnsWhetherRemoved ==
    [][lastOp' = "unregister" =>
          IF hasEvaluator(arguments'[1])
          THEN /\ returned' = "true"
               /\ evaluators'[LowerLanguage(arguments'[1])] = NoEvaluator
               /\ \A k \in RegistryKeys \ {LowerLanguage(arguments'[1])} :
                     evaluators'[k] = evaluators[k]
          ELSE /\ returned' = "false"
               /\ evaluators' = evaluators
               /\ keyOrder' = keyOrder
               /\ loadedPlugins' = loadedPlugins]_vars

C23_Witness ==
    /\ lastOp = "unregister"
    /\ returned = "true"
    /\ arguments = <<"Python">>
    /\ before["python"] # NoEvaluator
    /\ ~hasEvaluator("Python")
    /\ loadedPlugins # <<>>

\* C24: after construction 'typescript' and 'ts' are bound to one and the same evaluator
\* instance.
C24_AliasesShareInstance ==
    lastOp = "constructor" =>
        /\ getEvaluator("typescript") = getEvaluator("ts")
        /\ getEvaluator("ts") # NoEvaluator

\* C25: a freshly constructed PluginManager lists 'typescript', 'ts', 'javascript' and 'js'
\* among its languages.
C25_BuiltinLanguagesListed ==
    lastOp = "constructor" =>
        {"typescript", "ts", "javascript", "js"} \subseteq Range(listLanguages)

\* the ways in which loading a plugin fails
FailureKinds ==
    {"require throws", "no export", "constructor throws", "no getLanguage", "no evaluate"}

\* the ledger records the last call appended
Added(ledger, ledgerAfter) == SubSeq(ledgerAfter, Len(ledger) + 1, Len(ledgerAfter))

\* C26: when loading a discovered plugin fails (its module cannot be loaded, it exports no
\* constructor, its constructor throws, or its instance lacks getLanguage or evaluate), the
\* plugin is skipped: it changes neither the registry nor the ledger, and every other
\* plugin of the discovered sequence, the later ones included, is loaded.
C26_FailedPluginIsSkipped ==
    [][lastOp' \in {"discoverPlugins", "loadPluginFromPackage"} =>
          LET good == SelectSeq(tried', LAMBDA p : p.load \notin FailureKinds)
              added == Added(loadedPlugins, loadedPlugins')
          IN  /\ SubSeq(loadedPlugins', 1, Len(loadedPlugins)) = loadedPlugins
              /\ [i \in 1..Len(added) |-> added[i].packageName]
                    = [i \in 1..Len(good) |-> good[i].packageName]
              /\ \A k \in RegistryKeys :
                    evaluators'[k] # evaluators[k] =>
                        \E i \in 1..Len(added) : added[i].language = k
              /\ good = <<>> => keyOrder' = keyOrder]_vars

C26_Witness ==
    /\ lastOp = "discoverPlugins"
    /\ Len(tried) = 2
    /\ tried[1].load = "constructor throws"
    /\ tried[2].packageName = "bench-python"
    /\ Len(loadedPlugins) = 1
    /\ loadedPlugins[1].packageName = "bench-python"
    /\ getEvaluator("python") = loadedPlugins[1].evaluator

\* C27: a plugin that loads is registered under the lower-cased language its instance
\* reports from getLanguage(), not under the key of its manifest, and one ledger record
\* with its package name, that language and that instance is appended.
C27_RegisteredUnderReportedLanguage ==
    [][(/\ lastOp' \in {"discoverPlugins", "loadPluginFromPackage"}
        /\ Len(tried') = 1
        /\ tried'[1].load = "ok") =>
          LET language == LowerLanguage(tried'[1].reports)
              added == Added(loadedPlugins, loadedPlugins')
          IN  /\ SubSeq(loadedPlugins', 1, Len(loadedPlugins)) = loadedPlugins
              /\ Len(added) = 1
              /\ added[1].packageName = tried'[1].packageName
              /\ added[1].language = language
              /\ added[1].evaluator = evaluators'[language]
              /\ evaluators'[language] \notin {evaluators[k] : k \in RegistryKeys}
              /\ \A k \in RegistryKeys \ {language} : evaluators'[k] = evaluators[k]]_vars

C27_Witness ==
    /\ lastOp = "loadPluginFromPackage"
    /\ returned = "true"
    /\ tried[1].packageName = "bench-strict"
    /\ tried[1].language = "ts"
    /\ getEvaluator("ts") = TsEvaluatorInstance
    /\ loadedPlugins[Len(loadedPlugins)].language = "typescript"
    /\ loadedPlugins[Len(loadedPlugins)].evaluator = getEvaluator("typescript")

C29_EveryWellFormedPluginReported ==
    discovered # NotCalled =>
        \A path \in Range(getNodeModulesPaths(searchPaths)) :
            Root(path).state = "readable" =>
                \A i \in 1..Len(Root(path).entries) :
                    Root(path).entries[i] \in {"plugin", "scoped plugin"} =>
                        PluginAt(path, i) \in Range(discovered[1])

\* the language tag of the first fenced block that has one: the run of words and + signs
\* that follows its fence
RECURSIVE TagRun(_, _)
TagRun(r, i) ==
    IF i > Len(r) \/ r[i] \notin WordTokens \cup {"+"} THEN <<>>
    ELSE <<r[i]>> \o TagRun(r, i + 1)

\* C30: detectLanguage returns the lower-cased language hint when one is supplied;
\* otherwise the lower-cased language tag of a fenced code block of the response, unless
\* that tag is 'code'; otherwise 'html' when the response holds a doctype or an <html tag;
\* otherwise 'typescript'.
C30_DetectionPrecedence ==
    detected # NotCalled =>
        LET at == FenceMatch(detectResponse)
            tag == IF at = 0 THEN <<>> ELSE LowerTokens(TagRun(detectResponse, at + 1))
        IN  detected[1] =
                IF Truthy(languageHint) THEN LowerTokens(languageHint.text)
                ELSE IF at # 0 /\ tag # <<"code">> THEN tag
                ELSE IF HasHtmlIndicator(detectResponse) THEN <<"html">>
                ELSE <<"typescript">>

(***************************************************************************)
(* The HTML evaluator's two modes.                                         *)
(***************************************************************************)
HtmlReturned == hpc = "returned"
HasFeedback(res, item) == \E i \in 1..Len(res.feedback) : res.feedback[i] = item
\* evaluate took the browser branch to its end: the feedback reports on rendering
BrowserScored ==
    /\ HtmlReturned
    /\ \/ HasFeedback(hresult, Item("success", <<"HTML renders successfully in browser">>))
       \/ HasFeedback(hresult, Item("error", <<"HTML failed to render in browser">>))

\* C32: without a rendering engine evaluate returns round(structure score * 0.5),
\* which is at most 50, and its feedback has the item that says static validation
\* was used.
C32_StaticModeHalfWeight ==
    (HtmlReturned /\ ~playwrightAvailable) =>
        /\ 2 * hresult.score \in {structureResult.score, structureResult.score + 1}
        /\ hresult.score <= 50
        /\ hresult.overall_score = hresult.score
        /\ HasFeedback(hresult,
               Item("info", <<"Using static HTML validation (Playwright not available)">>))
        /\ ~hresult.details.renders

C32_Witness ==
    HtmlReturned /\ ~playwrightAvailable /\ structureResult.score = 33 /\ hresult.score = 17

\* the points the documented scale gives a render time: 20 under 1 s, 10 under 3 s
DocumentedTimePoints(t) ==
    IF t < FastRenderMs THEN FastRenderWeight ELSE IF t < RenderMs THEN RenderWeight ELSE 0

\* C33: in browser mode the score is 50 for rendering, plus 30, 15 or 0 for the
\* console errors, plus 20 for a render time under 1 s or 10 for one under 3 s,
\* a render time of 0 ms included.
C33_BrowserScoreIsDocumentedSum ==
    BrowserScored =>
        hresult.score = (IF hresult.details.renders THEN 50 ELSE 0)
                        + (IF Len(hresult.details.errors) = 0 THEN 30
                           ELSE IF Len(hresult.details.errors) <= 2 THEN 15 ELSE 0)
                        + DocumentedTimePoints(hresult.details.render_time_ms)

\* C34: text without any HTML scores below 50 and does not pass, with or without a
\* rendering engine.
C34_NoHtmlScoresBelowFifty ==
    (HtmlReturned /\ structureResult = validateStructure(<<>>)) =>
        hresult.score < 50 /\ ~hresult.passed

\* C40: in browser mode a page that did not render gets nothing for rendering and
\* nothing for the render time: its score is the console-error component alone.
C40_FailedRenderGetsNoRenderPoints ==
    (BrowserScored /\ ~hresult.details.renders) =>
        hresult.score = ErrorsPoints(hresult.details)

\* C36: evaluate returns passed = true exactly when the syntax was valid and the run
\* succeeded; the comparison moves the score between 70 and 100 and never the verdict.
C36_PassedIffSyntaxAndExecution ==
    Returned =>
        /\ result.passed <=> ExecutionSucceeded
        /\ ExecutionSucceeded => result.score \in 70..100
        /\ ~ExecutionSucceeded => result.score \in {0, 30}

\* a successful run whose output is compared and found different still passes
C36_Witness ==
    /\ ExecutionSucceeded
    /\ Compares(expected, promise.value)
    /\ result.details.score_breakdown.output_match < 15
    /\ result.passed

C37_ExecuteCodeResolves ==
    /\ [](evalTimer = "fired" => promise.settled)
    /\ (pc = "awaiting") ~> promise.settled
    /\ (pc = "awaiting") ~> Returned

\* evaluate has returned the timeout result while the child is still running
C37_Witness ==
    /\ Returned
    /\ firstEvent = "timer"
    /\ child = "running"
    /\ "exit" \notin emitted /\ "close" \notin emitted /\ "error" \notin emitted

\* C38: after any sequence of register, unregister, plugin loads, discoverPlugins and
\* reloadPlugins, every record of getLoadedPlugins() names the evaluator that
\* getEvaluator returns for the record's language, and no language has two records.
C38_LedgerMatchesRegistry ==
    /\ \A i \in 1..Len(loadedPlugins) :
          getEvaluator(loadedPlugins[i].language) = loadedPlugins[i].evaluator
    /\ \A i, j \in 1..Len(loadedPlugins) :
          loadedPlugins[i].language = loadedPlugins[j].language => i = j

(***************************************************************************)
(* BenchAgent.runTest: the retry protocol.                                 *)
(***************************************************************************)
AgentReturned == agentPc = "returned"
Attempts == Len(outcomes)

\* the parts of the protocol that do not depend on what counts as a response:
\* at most maxRetries attempts, 2^k s before attempt k + 1, an error result only
\* after maxRetries attempts and with retry_attempts = maxRetries, always a result
RetryBounds ==
    /\ Attempts <= maxRetries
    /\ Len(waits) <= Attempts
    /\ Len(waits) >= Attempts - 1
    /\ \A k \in 1..Len(waits) : waits[k] = (2 ^ k) * 1000
    /\ AgentReturned =>
          /\ Len(testResult) = 1
          /\ testResult[1].status \in {"success", "error"}
          /\ testResult[1].status = "error" =>
                /\ Attempts = maxRetries
                /\ testResult[1].retry_attempts = <<maxRetries>>

\* runTest returns 'success' at the first attempt whose outcome is in `good`, makes
\* no attempt after it, and returns 'error' when no attempt had such an outcome
RetryProtocol(good) ==
    /\ RetryBounds
    /\ \A i \in 1..Attempts : outcomes[i] \in good => i = Attempts /\ AgentReturned
    /\ AgentReturned =>
          (testResult[1].status = "success"
              <=> (Attempts > 0 /\ outcomes[Attempts] \in good))

\* C35 as stated: any response that is not the empty string ends the retries with
\* 'success', a response of whitespace included.
C35_Claimed == RetryProtocol({"text", "blank"})

\* C35: runTest makes at most maxRetries attempts, sleeps 2^k seconds before attempt
\* k + 1, returns 'success' at the first attempt whose response has a character
\* other than whitespace and makes no attempt after it, and otherwise returns an
\* 'error' result with retry_attempts = maxRetries; it always returns a result.
C35_RetryProtocol == RetryProtocol({"text"})

\* three attempts, the third of which succeeded after pauses of 2 s and 4 s
C35_Witness ==
    /\ AgentReturned
    /\ outcomes = <<"throws", "blank", "text">>
    /\ waits = <<2000, 4000>>
    /\ testResult[1].status = "success"

(***************************************************************************)
(* Bench.runSingleTest: evaluation never fails the test.                   *)
(***************************************************************************)
\* the call got as far as looking for an evaluator
EvaluationTried ==
    /\ runPc \in {"evaluating", "returned", "threw"}
    /\ runArgs # <<>>
    /\ runArgs.prompt # ""
    /\ constructed
    /\ runArgs.result.status = "success"

MissingEvaluator == EvaluationTried /\ EvaluatorFor(runLanguage) = NoEvaluator
EvaluateFailed == EvaluationTried /\ evalOutcome \in {"throws", "rejects"}
Logged(line) == \E i \in 1..Len(runLog) : runLog[i] = line

\* the result was pushed on this.results and returned, without an evaluation
RecordedWithoutEvaluation ==
    /\ runPc = "returned"
    /\ results # <<>>
    /\ results[Len(results)] = benchResult
    /\ benchResult.status = runArgs.result.status
    /\ benchResult.response = runArgs.result.response
    /\ benchResult.evaluation = <<>>
    /\ benchResult.language = <<>>

\* C31: when the detected language has no registered evaluator, or evaluate throws
\* or rejects, runSingleTest does not throw: it logs the condition (for a missing
\* evaluator, with the languages available) and records and returns the test result
\* without an evaluation.
C31_EvaluationFailureIsNotFatal ==
    /\ MissingEvaluator =>
          /\ RecordedWithoutEvaluation
          /\ Logged(<<"No evaluator found for language: ", runLanguage>>)
          /\ Logged(<<"Available: ", listLanguages>>)
    /\ EvaluateFailed =>
          /\ RecordedWithoutEvaluation
          /\ Logged(<<"Evaluation failed: ", evalOutcome>>)

\* both cases have happened in one run of a Bench: a result recorded after an
\* evaluator threw, then one for a response whose tag names no registered language
C31_Witness ==
    /\ MissingEvaluator
    /\ runLanguage = <<"ts", "code">>
    /\ Len(results) = 2
    /\ results[1].evaluation = <<>>
    /\ results[1].response = <<"<html">>

=============================================================================
